---- MODULE Spec2Model ----
(***************************************************************************)
(* Model of the 4mica TypeScript SDK core.                                 *)
(*                                                                         *)
(* Part 1: AuthSession (src/src/auth.ts): the SIWE session with its token  *)
(* cache and the two single-flight slots inFlight and loginPromise.  The   *)
(* program runs on a single-threaded event loop: every action below is one *)
(* run-to-completion job (a call up to its first await, or the             *)
(* continuation after an await).  Network responses and new calls may be   *)
(* interleaved in any order.  A promise's creator awaits it in the same    *)
(* job that creates it, so its continuation (the finally block that clears *)
(* the slot) always runs before the continuation of any caller that merely *)
(* returned the shared promise.                                            *)
(*                                                                         *)
(* Part 2: RecipientClient.verifyPaymentGuarantee / remunerate             *)
(* (src/src/client/index.ts).                                              *)
(***************************************************************************)
EXTENDS Integers, Sequences, FiniteSets, TLC

\* ------------------------------------------------------------------ bounds
MaxCalls == 3        \* number of accessToken()/login()/logout() calls issued
MaxTime == 2         \* the clock runs from 0 to MaxTime seconds
MaxBlsCalls == 3     \* number of signatureToWords/signatureToWordsAsync calls issued

ExpiresInSet == {1, 2}     \* expires_in values the server may answer
MarginSet == {1}           \* refreshMarginSecs values the session is built with

\* ------------------------------------------------------------- AuthSession
VARIABLES
  tokens,            \* AuthSession.tokens
  inFlight,          \* AuthSession.inFlight
  loginPromise,      \* AuthSession.loginPromise
  refreshMarginSecs, \* AuthSession.refreshMarginSecs
  now,               \* Date.now() / 1000
  rol,               \* the running refreshOrLogin() coroutine
  plPc,              \* the running performLogin() coroutine
  refreshSent,       \* refresh token carried by the refresh request in flight
  calls,             \* the public calls that have not returned yet, oldest first
  nCalls,            \* number of public calls issued so far
  rolSeq,            \* number of refreshOrLogin() operations started
  nonceCalls,        \* number of POST /auth/nonce requests sent
  verifyCalls,       \* number of POST /auth/verify requests sent
  refreshCalls,      \* number of POST /auth/refresh requests sent
  logoutCalls,       \* number of POST /auth/logout requests sent
  issued,            \* number of token sets the server has issued
  writer,            \* operation that assigned this.tokens in the last step
  returned,          \* the call that returned to the application in the last step
  loggedOut,         \* a logout() resolved and no call was issued since
  rejected           \* the refresh tokens the server has answered with 401

authVars == <<tokens, inFlight, loginPromise, refreshMarginSecs, now, rol, plPc,
              refreshSent, calls, nCalls, rolSeq, nonceCalls, verifyCalls, refreshCalls,
              logoutCalls, issued, writer, returned, loggedOut, rejected>>

\* ------------------------------------------------- RecipientClient.remunerate
VARIABLES
  guaranteeDomain,   \* Client.guaranteeDomain, a string
  rmPc,              \* position of the running remunerate() call
  rmCert,            \* the certificate remunerate() was called with
  rmResult,          \* how remunerate() settled
  sigCalls,          \* number of signatureToWordsAsync invocations
  gatewayCalls,      \* number of gateway.remunerate invocations
  rmLog,             \* what the call has done so far, in order
  rmField            \* the certificate field the error message names

rmVars == <<guaranteeDomain, rmPc, rmCert, rmResult, sigCalls, gatewayCalls, rmLog, rmField>>

\* ------------------------------------------------ BLS backend (signing.ts)
VARIABLES
  curvesCache,       \* module variable curvesCache
  curvesPromise,     \* module variable curvesPromise
  loaderPc,          \* position of the async function stored in curvesPromise
  backend,           \* which ways of loading @noble/curves work in this install
  blsCalls,          \* signatureToWordsAsync calls that have not returned yet
  nBlsCalls,         \* number of signatureToWords/signatureToWordsAsync calls issued
  asyncLoads,        \* number of times loadCurvesAsync started loading
  blsReturned        \* the call that returned in the last step

blsVars == <<curvesCache, curvesPromise, loaderPc, backend, blsCalls, nBlsCalls,
             asyncLoads, blsReturned>>

\* ------------------------------------------- guarantee codec (guarantee.ts)
VARIABLES
  cdOp,              \* the codec function applied last
  cdClaims,          \* the claims encodeGuaranteeClaims was applied to
  cdEnc,             \* what encodeGuaranteeClaims returned or threw
  cdData,            \* the data decodeGuaranteeClaims was applied to
  cdDec              \* what decodeGuaranteeClaims returned or threw

codecVars == <<cdOp, cdClaims, cdEnc, cdData, cdDec>>

\* ------------------------------------------- PaymentSigner (signing.ts)
VARIABLES
  sgSigner,          \* this.wallet.address
  sgPc,              \* where the signRequest call stands
  sgUser,            \* claims.userAddress of the call
  sgScheme,          \* the scheme argument of the call
  sgResult,          \* what the call returned or threw
  walletCalls,       \* the wallet operations invoked so far, oldest first
  nSign              \* signRequest calls made so far

sgVars == <<sgSigner, sgPc, sgUser, sgScheme, sgResult, walletCalls, nSign>>

\* ------------------------------------------- ContractGateway (contract.ts)
VARIABLES
  gwCalls            \* the payTabEth / payTabErc20 calls made so far, oldest first

gwVars == <<gwCalls>>

\* ------------------------------------------- pure helpers applied to one input
VARIABLES
  pfOp,              \* the helper applied, "none" before
  pfArg,             \* its argument
  pfRes              \* what it returned or threw

pfVars == <<pfOp, pfArg, pfRes>>

\* ------------------------------------------- Client.new and RpcProxy
VARIABLES
  clientCfg,           \* the Config Client.new was called with, <<>> before
  authSession,         \* Client.new has created an AuthSession
  bearerToken,         \* RpcProxy.bearerToken, <<>> when undefined or empty
  bearerTokenProvider, \* RpcProxy.bearerTokenProvider is set
  providerCalls,       \* calls of the token provider so far
  rpcWaiting,          \* requests waiting for the token provider
  rpcSent,             \* requests handed to fetch so far
  rpcAuthorization     \* Authorization header of the last request, <<>> when absent

rpcVars == <<clientCfg, authSession, bearerToken, bearerTokenProvider, providerCalls,
             rpcWaiting, rpcSent, rpcAuthorization>>

\* what the actions of one component leave alone
authFrame == <<rmVars, blsVars, codecVars, sgVars, gwVars, pfVars, rpcVars>>
rmFrame == <<authVars, blsVars, codecVars, sgVars, gwVars, pfVars, rpcVars>>
blsFrame == <<authVars, rmVars, codecVars, sgVars, gwVars, pfVars, rpcVars>>
codecFrame == <<authVars, rmVars, blsVars, sgVars, gwVars, pfVars, rpcVars>>
sgFrame == <<authVars, rmVars, blsVars, codecVars, gwVars, pfVars, rpcVars>>
gwFrame == <<authVars, rmVars, blsVars, codecVars, sgVars, pfVars, rpcVars>>
pfFrame == <<authVars, rmVars, blsVars, codecVars, sgVars, gwVars, rpcVars>>
rpcFrame == <<authVars, rmVars, blsVars, codecVars, sgVars, gwVars, pfVars>>

vars == <<authVars, rmVars, blsVars, codecVars, sgVars, gwVars, pfVars, rpcVars>>

NoRes == [ok |-> FALSE, tok |-> 0, err |-> "none"]
Ok(k) == [ok |-> TRUE, tok |-> k, err |-> "none"]
Err(e) == [ok |-> FALSE, tok |-> 0, err |-> e]

NoTokens == [set |-> FALSE, accessToken |-> 0, refreshToken |-> 0, expiresAt |-> 0]
NoPromise == [id |-> 0, st |-> "none", res |-> NoRes, op |-> "none"]
Pending(i, o) == [id |-> i, st |-> "pending", res |-> NoRes, op |-> o]
Settled(p, r) == [p EXCEPT !.st = IF r.ok THEN "resolved" ELSE "rejected", !.res = r]

RolIdle == [pc |-> "idle", owner |-> FALSE, pid |-> 0, res |-> NoRes, via401 |-> FALSE]
Call(k, p, i, r, t) == [kind |-> k, pc |-> p, pid |-> i, res |-> r, rt |-> t]
NoReturn == [kind |-> "none", how |-> "none", pid |-> 0, res |-> NoRes]
Return(k, h, p, r) == [kind |-> k, how |-> h, pid |-> p, res |-> r]

\* errors a refresh request can end with (AuthClient.request, parseTokens)
RefreshErrors == {"Refresh401", "RefreshTransport", "RefreshDecode", "RefreshStatus500"}

\* AuthSession.cacheTokens
cacheTokens(k, expiresIn, t) ==
  [set |-> TRUE, accessToken |-> k, refreshToken |-> k, expiresAt |-> t + expiresIn]

\* isExpiringSoon that never trusts the cache
isExpiringSoon_always(tk, t, margin) == TRUE

\* isExpiringSoon with a strict comparison
isExpiringSoon_strict(tk, t, margin) ==
  IF ~tk.set THEN TRUE ELSE t + margin > tk.expiresAt

\* AuthSession.isExpiringSoon
isExpiringSoon(tk, t, margin) ==
  IF ~tk.set THEN TRUE ELSE t + margin >= tk.expiresAt

\* a test that takes any session for one holding a refresh token
hasRefreshToken_always(tk) == TRUE

\* `this.tokens?.refreshToken` : parseTokens only accepts non-empty strings
hasRefreshToken(tk) == tk.set /\ tk.refreshToken # 0

\* a slot test that never sees the operation in flight
slotTaken_never(p) == FALSE

\* `if (this.inFlight)` / `if (this.loginPromise)`
slotTaken(p) == p.st # "none"

\* a fallback test without the status comparison / one that never matches
isUnauthorized_anyError(e) == TRUE
isUnauthorized_never(e) == FALSE

\* `err instanceof AuthApiError && err.status === 401` in refreshOrLogin
isUnauthorized(e) == e = "Refresh401"

\* a slot that is never cleared (no finally block)
clearSlot_never(p) == p

\* a slot that is only cleared on success (try without finally)
clearSlot_onSuccessOnly(p) == IF p.st = "rejected" THEN p ELSE NoPromise

\* `finally { this.inFlight = undefined }` / `finally { this.loginPromise = undefined }`
clearSlot(p) == NoPromise

\* a promise settles: every caller that returned it will see the same result
settleJoiners(cs, k, id, r) ==
  [i \in 1..Len(cs) |->
     IF cs[i].kind = k /\ cs[i].pc = "join" /\ cs[i].pid = id /\ cs[i].res = NoRes
     THEN [cs[i] EXCEPT !.res = r] ELSE cs[i]]

\* the call at position i returns to the application
without(cs, i) == SubSeq(cs, 1, i - 1) \o SubSeq(cs, i + 1, Len(cs))

\* the application issues at most MaxCalls calls
CanCall == nCalls < MaxCalls

AuthInit ==
  /\ tokens = NoTokens
  /\ inFlight = NoPromise
  /\ loginPromise = NoPromise
  /\ refreshMarginSecs \in MarginSet
  /\ now = 0
  /\ rol = RolIdle
  /\ plPc = "idle"
  /\ refreshSent = 0
  /\ calls = <<>>
  /\ nCalls = 0
  /\ rolSeq = 0
  /\ nonceCalls = 0
  /\ verifyCalls = 0
  /\ refreshCalls = 0
  /\ logoutCalls = 0
  /\ issued = 0
  /\ writer = "none"
  /\ returned = NoReturn
  /\ loggedOut = FALSE
  /\ rejected = {}

Tick ==
  /\ UNCHANGED <<authFrame, nCalls, rejected>>
  /\ now < MaxTime
  /\ now' = now + 1
  /\ writer' = "none"
  /\ returned' = NoReturn
  /\ UNCHANGED <<tokens, inFlight, loginPromise, refreshMarginSecs, rol, plPc,
                 refreshSent, calls, rolSeq, nonceCalls, verifyCalls, refreshCalls,
                 logoutCalls, issued, loggedOut>>

\* the synchronous part of this.login() when refreshOrLogin calls it
loginFromRol(is401) ==
  IF slotTaken(loginPromise)
  THEN /\ rol' = [pc |-> "awaitLogin", owner |-> FALSE, pid |-> loginPromise.id,
                  res |-> loginPromise.res, via401 |-> is401]
       /\ UNCHANGED <<loginPromise, plPc, nonceCalls>>
  ELSE /\ nonceCalls' = nonceCalls + 1
       /\ loginPromise' = Pending(nonceCalls + 1, "performLogin")
       /\ plPc' = "awaitNonce"
       /\ rol' = [pc |-> "awaitLogin", owner |-> TRUE, pid |-> nonceCalls + 1,
                  res |-> NoRes, via401 |-> is401]

\* AuthSession.accessToken up to its first await
accessToken ==
  /\ UNCHANGED <<authFrame, rejected>>
  /\ CanCall
  /\ nCalls' = nCalls + 1
  /\ writer' = "none"
  /\ loggedOut' = FALSE
  /\ UNCHANGED <<refreshMarginSecs, now, verifyCalls, logoutCalls, issued, tokens>>
  /\ IF tokens.set /\ ~isExpiringSoon(tokens, now, refreshMarginSecs)
     THEN /\ calls' = calls
          /\ returned' = Return("accessToken", "cached", 0, Ok(tokens.accessToken))
          /\ UNCHANGED <<inFlight, loginPromise, rol, plPc, refreshSent, rolSeq,
                         nonceCalls, refreshCalls>>
     ELSE IF slotTaken(inFlight)
     THEN /\ calls' = Append(calls, Call("accessToken", "join", inFlight.id, inFlight.res, 0))
          /\ returned' = NoReturn
          /\ UNCHANGED <<inFlight, loginPromise, rol, plPc, refreshSent, rolSeq,
                         nonceCalls, refreshCalls>>
     ELSE /\ rolSeq' = rolSeq + 1
          /\ returned' = NoReturn
          /\ inFlight' = Pending(rolSeq + 1, "refreshOrLogin")
          /\ calls' = Append(calls, Call("accessToken", "own", rolSeq + 1, NoRes, 0))
          /\ IF hasRefreshToken(tokens)
             THEN /\ refreshCalls' = refreshCalls + 1
                  /\ refreshSent' = tokens.refreshToken
                  /\ rol' = [pc |-> "awaitRefresh", owner |-> FALSE, pid |-> 0,
                             res |-> NoRes, via401 |-> FALSE]
                  /\ UNCHANGED <<loginPromise, plPc, nonceCalls>>
             ELSE /\ loginFromRol(FALSE)
                  /\ UNCHANGED <<refreshSent, refreshCalls>>

\* AuthSession.login, called by the application, up to its first await
login ==
  /\ UNCHANGED <<authFrame, rejected>>
  /\ CanCall
  /\ nCalls' = nCalls + 1
  /\ writer' = "none"
  /\ returned' = NoReturn
  /\ loggedOut' = FALSE
  /\ UNCHANGED <<tokens, inFlight, refreshMarginSecs, now, rol, refreshSent, rolSeq,
                 verifyCalls, refreshCalls, logoutCalls, issued>>
  /\ IF slotTaken(loginPromise)
     THEN /\ calls' = Append(calls, Call("login", "join", loginPromise.id,
                                          loginPromise.res, 0))
          /\ UNCHANGED <<loginPromise, plPc, nonceCalls>>
     ELSE /\ nonceCalls' = nonceCalls + 1
          /\ loginPromise' = Pending(nonceCalls + 1, "performLogin")
          /\ plPc' = "awaitNonce"
          /\ calls' = Append(calls, Call("login", "own", nonceCalls + 1, NoRes, 0))

\* AuthSession.logout up to its await
logout ==
  /\ UNCHANGED <<authFrame, rejected>>
  /\ CanCall
  /\ nCalls' = nCalls + 1
  /\ writer' = "none"
  /\ UNCHANGED <<tokens, inFlight, loginPromise, refreshMarginSecs, now, rol, plPc,
                 refreshSent, rolSeq, nonceCalls, verifyCalls, refreshCalls, issued>>
  /\ IF ~hasRefreshToken(tokens)
     THEN /\ calls' = calls
          /\ returned' = Return("logout", "noop", 0, Ok(0))
          /\ loggedOut' = TRUE
          /\ UNCHANGED logoutCalls
     ELSE /\ logoutCalls' = logoutCalls + 1
          /\ calls' = Append(calls, Call("logout", "awaitLogout", 0, NoRes,
                                          tokens.refreshToken))
          /\ returned' = NoReturn
          /\ UNCHANGED loggedOut

\* AuthSession.logout after `await this.authClient.logout(...)`
logoutResponse(c, ok) ==
  /\ UNCHANGED <<authFrame, nCalls, rejected>>
  /\ c \in 1..Len(calls)
  /\ calls[c].kind = "logout" /\ calls[c].pc = "awaitLogout"
  /\ calls' = without(calls, c)
  /\ UNCHANGED <<inFlight, loginPromise, refreshMarginSecs, now, rol, plPc, refreshSent,
                 rolSeq, nonceCalls, verifyCalls, refreshCalls, logoutCalls, issued>>
  /\ IF ok
     THEN /\ tokens' = NoTokens
          /\ writer' = "logout"
          /\ loggedOut' = TRUE
          /\ returned' = Return("logout", "sent", 0, Ok(0))
     ELSE /\ writer' = "none"
          /\ returned' = Return("logout", "sent", 0, Err("LogoutFailed"))
          /\ UNCHANGED <<tokens, loggedOut>>

\* performLogin() ends: the promise stored in loginPromise settles
settleLogin(r) ==
  /\ loginPromise' = Settled(loginPromise, r)
  /\ plPc' = "idle"
  /\ calls' = settleJoiners(calls, "login", loginPromise.id, r)
  /\ rol' = IF rol.pc = "awaitLogin" /\ ~rol.owner /\ rol.pid = loginPromise.id
               /\ rol.res = NoRes
            THEN [rol EXCEPT !.res = r] ELSE rol

\* performLogin after `await this.authClient.getNonce(address)`
nonceResponse(ok) ==
  /\ UNCHANGED <<authFrame, nCalls, rejected>>
  /\ plPc = "awaitNonce"
  /\ writer' = "none"
  /\ returned' = NoReturn
  /\ UNCHANGED <<tokens, inFlight, refreshMarginSecs, now, refreshSent, rolSeq, nonceCalls,
                 verifyCalls, refreshCalls, logoutCalls, issued, loggedOut>>
  /\ IF ok
     THEN /\ plPc' = "awaitSign"
          /\ UNCHANGED <<loginPromise, calls, rol>>
     ELSE settleLogin(Err("NonceFailed"))

\* performLogin after `await this.wallet.signMessage(message)`
signDone(ok) ==
  /\ UNCHANGED <<authFrame, nCalls, rejected>>
  /\ plPc = "awaitSign"
  /\ writer' = "none"
  /\ returned' = NoReturn
  /\ UNCHANGED <<tokens, inFlight, refreshMarginSecs, now, refreshSent, rolSeq, nonceCalls,
                 refreshCalls, logoutCalls, issued, loggedOut>>
  /\ IF ok
     THEN /\ plPc' = "awaitVerify"
          /\ verifyCalls' = verifyCalls + 1
          /\ UNCHANGED <<loginPromise, calls, rol>>
     ELSE /\ settleLogin(Err("SignFailed"))
          /\ UNCHANGED verifyCalls

\* performLogin after `await this.authClient.verify(...)`
verifyResponse(ok, expiresIn) ==
  /\ UNCHANGED <<authFrame, nCalls, rejected>>
  /\ plPc = "awaitVerify"
  /\ returned' = NoReturn
  /\ UNCHANGED <<inFlight, refreshMarginSecs, now, refreshSent, rolSeq, nonceCalls,
                 verifyCalls, refreshCalls, logoutCalls, loggedOut>>
  /\ IF ok
     THEN /\ issued' = issued + 1
          /\ tokens' = cacheTokens(issued + 1, expiresIn, now)
          /\ writer' = "performLogin"
          /\ settleLogin(Ok(issued + 1))
     ELSE /\ writer' = "none"
          /\ settleLogin(Err("VerifyFailed"))
          /\ UNCHANGED <<tokens, issued>>

\* refreshOrLogin ends: the promise stored in inFlight settles
settleInFlight(r) ==
  /\ inFlight' = Settled(inFlight, r)
  /\ calls' = settleJoiners(calls, "accessToken", inFlight.id, r)

\* refreshTokens after `await this.authClient.refresh(...)`, and the
\* continuation of refreshOrLogin that follows it
refreshResponse(e, expiresIn) ==
  /\ UNCHANGED <<authFrame, nCalls>>
  /\ rol.pc = "awaitRefresh"
  /\ rejected' = IF e = "Refresh401" THEN rejected \cup {refreshSent} ELSE rejected
  /\ refreshSent' = 0
  /\ returned' = NoReturn
  /\ UNCHANGED <<refreshMarginSecs, now, rolSeq, verifyCalls, refreshCalls, logoutCalls,
                 loggedOut>>
  /\ IF e = "ok"
     THEN /\ issued' = issued + 1
          /\ tokens' = cacheTokens(issued + 1, expiresIn, now)
          /\ writer' = "refreshOrLogin"
          /\ settleInFlight(Ok(issued + 1))
          /\ rol' = RolIdle
          /\ UNCHANGED <<loginPromise, plPc, nonceCalls>>
     ELSE IF isUnauthorized(e)
     THEN /\ loginFromRol(TRUE)
          /\ writer' = "none"
          /\ UNCHANGED <<tokens, issued, inFlight, calls>>
     ELSE /\ settleInFlight(Err(e))
          /\ rol' = RolIdle
          /\ writer' = "none"
          /\ UNCHANGED <<tokens, issued, loginPromise, plPc, nonceCalls>>

\* the login() called by refreshOrLogin continues after its await (or, when it
\* returned the shared promise, once that promise has been unwrapped)
rolLoginResume ==
  /\ UNCHANGED <<authFrame, nCalls, rejected>>
  /\ rol.pc = "awaitLogin"
  /\ writer' = "none"
  /\ returned' = NoReturn
  /\ UNCHANGED <<tokens, inFlight, refreshMarginSecs, now, plPc, refreshSent, calls, rolSeq,
                 nonceCalls, verifyCalls, refreshCalls, logoutCalls, issued, loggedOut>>
  /\ IF rol.owner
     THEN /\ loginPromise.id = rol.pid
          /\ loginPromise.st \in {"resolved", "rejected"}
          /\ rol' = [rol EXCEPT !.pc = "loginSettled", !.res = loginPromise.res]
          /\ loginPromise' = clearSlot(loginPromise)
     ELSE /\ rol.res # NoRes
          /\ loginPromise.id # rol.pid
          /\ rol' = [rol EXCEPT !.pc = "loginSettled"]
          /\ UNCHANGED loginPromise

\* refreshOrLogin after `await this.login()`
rolResume ==
  /\ UNCHANGED <<authFrame, nCalls, rejected>>
  /\ rol.pc = "loginSettled"
  /\ writer' = "none"
  /\ returned' = NoReturn
  /\ settleInFlight(rol.res)
  /\ rol' = RolIdle
  /\ UNCHANGED <<tokens, loginPromise, refreshMarginSecs, now, plPc, refreshSent, rolSeq,
                 nonceCalls, verifyCalls, refreshCalls, logoutCalls, issued, loggedOut>>

\* accessToken after `await this.inFlight` (or after the returned promise unwrapped)
accessTokenResume(c) ==
  /\ UNCHANGED <<authFrame, nCalls, rejected>>
  /\ c \in 1..Len(calls)
  /\ calls[c].kind = "accessToken"
  /\ calls' = without(calls, c)
  /\ writer' = "none"
  /\ UNCHANGED <<tokens, loginPromise, refreshMarginSecs, now, rol, plPc, refreshSent, rolSeq,
                 nonceCalls, verifyCalls, refreshCalls, logoutCalls, issued, loggedOut>>
  /\ \/ /\ calls[c].pc = "own"
        /\ inFlight.id = calls[c].pid
        /\ inFlight.st \in {"resolved", "rejected"}
        /\ returned' = Return("accessToken", "own", calls[c].pid, inFlight.res)
        /\ inFlight' = clearSlot(inFlight)
     \/ /\ calls[c].pc = "join"
        /\ calls[c].res # NoRes
        /\ inFlight.id # calls[c].pid
        /\ returned' = Return("accessToken", "join", calls[c].pid, calls[c].res)
        /\ UNCHANGED inFlight

\* login after `await this.loginPromise` (or after the returned promise unwrapped)
loginResume(c) ==
  /\ UNCHANGED <<authFrame, nCalls, rejected>>
  /\ c \in 1..Len(calls)
  /\ calls[c].kind = "login"
  /\ calls' = without(calls, c)
  /\ writer' = "none"
  /\ UNCHANGED <<tokens, inFlight, refreshMarginSecs, now, rol, plPc, refreshSent, rolSeq,
                 nonceCalls, verifyCalls, refreshCalls, logoutCalls, issued, loggedOut>>
  /\ \/ /\ calls[c].pc = "own"
        /\ loginPromise.id = calls[c].pid
        /\ loginPromise.st \in {"resolved", "rejected"}
        /\ returned' = Return("login", "own", calls[c].pid, loginPromise.res)
        /\ loginPromise' = clearSlot(loginPromise)
     \/ /\ calls[c].pc = "join"
        /\ calls[c].res # NoRes
        /\ loginPromise.id # calls[c].pid
        /\ returned' = Return("login", "join", calls[c].pid, calls[c].res)
        /\ UNCHANGED loginPromise

\* ---------------------------------------------------------------------------
\* Guarantee certificates (src/unnamed/part_015, src/src/client/index.ts)
\* ---------------------------------------------------------------------------
DomainLen == 32               \* ensureDomainBytes: bytes.length !== 32
CLAIMS_ENCODED_WORDS == 10    \* CLAIMS_ENCODED_BYTES = 32 * 10
WRAPPED_CLAIMS_WORDS == 13    \* WRAPPED_CLAIMS_BYTES = 32 * 2 + 32 + 32 * 10
WordBytes == 32
SHORT_BLOB_BYTES == 2         \* decodeGuaranteeClaims('0x1234')

HexChars == <<"0", "1", "2", "3", "4", "5", "6", "7", "8", "9", "a", "b", "c", "d", "e", "f">>
UpperHexChars == <<"0", "1", "2", "3", "4", "5", "6", "7", "8", "9", "A", "B", "C", "D", "E", "F">>

\* Buffer.from(bytes).toString('hex'): two lowercase digits per byte
RECURSIVE toHex(_)
toHex(bs) ==
  IF bs = <<>> THEN <<>>
  ELSE <<HexChars[(Head(bs) \div 16) + 1], HexChars[(Head(bs) % 16) + 1]>> \o toHex(Tail(bs))

\* the same bytes written with uppercase digits (a string a contract client may return)
RECURSIVE toUpperHex(_)
toUpperHex(bs) ==
  IF bs = <<>> THEN <<>>
  ELSE <<UpperHexChars[(Head(bs) \div 16) + 1], UpperHexChars[(Head(bs) % 16) + 1]>>
         \o toUpperHex(Tail(bs))

\* character code of the characters that occur in the modelled strings
charCode(ch) ==
  CASE ch \in {HexChars[i] : i \in 1..10} -> 47 + (CHOOSE i \in 1..10 : HexChars[i] = ch)
    [] ch \in {HexChars[i] : i \in 11..16} -> 86 + (CHOOSE i \in 11..16 : HexChars[i] = ch)
    [] ch \in {UpperHexChars[i] : i \in 11..16} -> 54 + (CHOOSE i \in 11..16 : UpperHexChars[i] = ch)
    [] OTHER -> 120

\* Buffer.from(str): the UTF-8 bytes of an ASCII string
bufferFrom(str) == [i \in 1..Len(str) |-> charCode(str[i])]

\* str.startsWith('0x')
startsWith0x(str) == Len(str) >= 2 /\ str[1] = "0" /\ str[2] = "x"

\* the value of one hex digit, either case
digitValue(ch) ==
  IF \E i \in 1..16 : HexChars[i] = ch THEN (CHOOSE i \in 1..16 : HexChars[i] = ch) - 1
  ELSE (CHOOSE i \in 1..16 : UpperHexChars[i] = ch) - 1

\* the bytes a string of hex digits denotes
fromHex(str) == [i \in 1..(Len(str) \div 2) |-> 16 * digitValue(str[2 * i - 1]) + digitValue(str[2 * i])]

\* the domains certificates and clients are drawn from: the all-zero domain of
\* tests/credit-flow.test.ts and domains that differ from it in one byte
ZeroDomain == [i \in 1..DomainLen |-> 0]
FlipPositions == {1, DomainLen}
FlipValues == {1, 171}
Domains == {ZeroDomain} \cup {[ZeroDomain EXCEPT ![p] = v] : p \in FlipPositions, v \in FlipValues}

\* ---- addresses.  viem spells an address it decodes in EIP-55 checksum case
\* and accepts, when encoding, the all-lowercase and the checksum spelling.
\* The spellings below are those of two addresses of the tests with their
\* EIP-55 forms.
AddressSpellings ==
  { [text |-> "0x0000000000000000000000000000000000000000",
     lower |-> "0x0000000000000000000000000000000000000000",
     checksum |-> "0x0000000000000000000000000000000000000000"],
    [text |-> "0x0000000000000000000000000000000000000001",
     lower |-> "0x0000000000000000000000000000000000000001",
     checksum |-> "0x0000000000000000000000000000000000000001"],
    [text |-> "0x0000000000000000000000000000000000000002",
     lower |-> "0x0000000000000000000000000000000000000002",
     checksum |-> "0x0000000000000000000000000000000000000002"],
    [text |-> "0x1234567890abcdef1234567890abcdef12345678",
     lower |-> "0x1234567890abcdef1234567890abcdef12345678",
     checksum |-> "0x1234567890AbcdEF1234567890aBcdef12345678"],
    [text |-> "0x1234567890AbcdEF1234567890aBcdef12345678",
     lower |-> "0x1234567890abcdef1234567890abcdef12345678",
     checksum |-> "0x1234567890AbcdEF1234567890aBcdef12345678"],
    [text |-> "0x1234567890ABCDEF1234567890ABCDEF12345678",
     lower |-> "0x1234567890abcdef1234567890abcdef12345678",
     checksum |-> "0x1234567890AbcdEF1234567890aBcdef12345678"] }
Addresses == {sp.text : sp \in AddressSpellings}
spelling(a) == CHOOSE sp \in AddressSpellings : sp.text = a

\* String.prototype.toLowerCase on an address
toLowerCase(a) == spelling(a).lower

\* viem checksumAddress / getAddress
checksumAddress(a) == spelling(a).checksum

\* viem isAddress (strict): all lowercase, or spelled with the right checksum
isAddress(a) == a = toLowerCase(a) \/ a = checksumAddress(a)

\* the 20 bytes of an address inside an ABI word, written as lowercase hex
addressToWord(a) == toLowerCase(a)

\* a decoder that hands the word's hex digits back as they are
wordToAddress_raw(w) == w

\* viem decodeAbiParameters on an address word
wordToAddress(w) == checksumAddress(w)

\* ---- the domain argument: a Uint8Array or a string
BytesArg(bs) == [kind |-> "bytes", bytes |-> bs, chars |-> <<>>]
StringArg(cs) == [kind |-> "string", bytes |-> <<>>, chars |-> cs]

\* viem toBytes on a string: hex digits after 0x, otherwise the UTF-8 bytes
toBytes(cs) == IF startsWith0x(cs) THEN fromHex(SubSeq(cs, 3, Len(cs))) ELSE bufferFrom(cs)

\* hexFromBytes
hexFromBytes(bs) == <<"0", "x">> \o toHex(bs)

\* a length test that lets longer domains through
ensureDomainBytes_atLeast(domain) ==
  LET bytes == IF domain.kind = "string" THEN toBytes(domain.chars) ELSE domain.bytes
  IN [ok |-> Len(bytes) >= DomainLen, bytes |-> bytes]

\* ensureDomainBytes
ensureDomainBytes(domain) ==
  LET bytes == IF domain.kind = "string" THEN toBytes(domain.chars) ELSE domain.bytes
  IN [ok |-> Len(bytes) = DomainLen, bytes |-> bytes]

\* parseU256 on a bigint
parseU256(v) == [ok |-> v >= 0, val |-> v]

\* ---- the argument of decodeGuaranteeClaims: a string or a byte array of
\* whole 32-byte words followed by `extra` further hex digits, or a value that
\* is neither a string nor bytes
Data(t, p, ws, x) == [type |-> t, prefixed |-> p, words |-> ws, extra |-> x]
NoData == Data("string", TRUE, <<>>, 0)

\* number of hex digits of normalizeHexBytes(data) after the 0x
hexDigits(data) == 2 * WordBytes * Len(data.words) + data.extra

ClaimsOf(d, v) ==
  [domain |-> BytesArg(d), tabId |-> 1, reqId |-> 2,
   userAddress |-> "0x0000000000000000000000000000000000000001",
   recipientAddress |-> "0x0000000000000000000000000000000000000002",
   amount |-> 3, totalAmount |-> 4,
   assetAddress |-> "0x0000000000000000000000000000000000000000",
   timestamp |-> 123456, version |-> v]
NoClaims == ClaimsOf(<<>>, 0)

\* the ten words of the claims tuple (CLAIM_TYPES)
claimWords(c, domain) ==
  <<fromHex(SubSeq(hexFromBytes(domain), 3, 2 * DomainLen + 2)),
    parseU256(c.tabId).val, parseU256(c.reqId).val,
    addressToWord(c.userAddress), addressToWord(c.recipientAddress),
    parseU256(c.amount).val, parseU256(c.totalAmount).val,
    addressToWord(c.assetAddress), c.timestamp, c.version>>

\* an encoder without the version test
versionSupported_any(v) == TRUE

\* `claims.version !== 1` / `version !== 1n` / `claimsVersion !== 1n`
versionSupported(v) == v = 1

\* encodeGuaranteeClaims; the blob is a 0x string of 32-byte ABI words
encodeGuaranteeClaims(c) ==
  LET fail(e) == [ok |-> FALSE, err |-> e, blob |-> NoData]
      dom == ensureDomainBytes(c.domain)
  IN IF ~versionSupported(c.version) THEN fail("VerificationError")
     ELSE IF ~dom.ok THEN fail("VerificationError")
     ELSE IF \E v \in {c.tabId, c.reqId, c.amount, c.totalAmount} : ~parseU256(v).ok
          THEN fail("ValidationError")
     ELSE IF \E a \in {c.userAddress, c.recipientAddress, c.assetAddress} : ~isAddress(a)
          THEN fail("InvalidAddressError")
     ELSE [ok |-> TRUE, err |-> "none",
           blob |-> Data("string", TRUE,
                         <<c.version, 2 * WordBytes, CLAIMS_ENCODED_WORDS * WordBytes>>
                           \o claimWords(c, dom.bytes), 0)]

\* a length test that only looks at whole words
lengthIs_wholeWords(data, nWords) == Len(data.words) = nWords

\* `byteLen === CLAIMS_ENCODED_BYTES` / `byteLen !== WRAPPED_CLAIMS_BYTES`,
\* with byteLen = (hex.length - 2) / 2
lengthIs(data, nWords) == hexDigits(data) = 2 * (WordBytes * nWords)

\* decodeGuaranteeClaims.  observed is twice the byte length the error
\* message of the length test reports
decodeGuaranteeClaims(blob) ==
  LET bad(e) == [ok |-> FALSE, err |-> e, claims |-> NoClaims, observed |-> 0, read |-> 0]
      tuple(w, n) ==
        IF ~versionSupported(w[10])
        THEN [bad("VerificationError") EXCEPT !.read = n]
        ELSE [ok |-> TRUE, err |-> "none", observed |-> 0, read |-> n,
              claims |-> [domain |-> BytesArg(toBytes(hexFromBytes(w[1]))),
                          tabId |-> parseU256(w[2]).val, reqId |-> parseU256(w[3]).val,
                          userAddress |-> wordToAddress(w[4]),
                          recipientAddress |-> wordToAddress(w[5]),
                          amount |-> parseU256(w[6]).val, totalAmount |-> parseU256(w[7]).val,
                          assetAddress |-> wordToAddress(w[8]), timestamp |-> w[9],
                          version |-> w[10]]]
  IN IF blob.type = "other" THEN bad("TypeError")
     ELSE IF lengthIs(blob, CLAIMS_ENCODED_WORDS) THEN tuple(blob.words, CLAIMS_ENCODED_WORDS)
     ELSE IF ~lengthIs(blob, WRAPPED_CLAIMS_WORDS)
          THEN [bad("VerificationError") EXCEPT !.observed = hexDigits(blob)]
     ELSE IF ~versionSupported(blob.words[1])
          THEN [bad("VerificationError") EXCEPT !.read = 1]
     ELSE IF blob.words[2] # 2 * WordBytes \/ blob.words[3] # CLAIMS_ENCODED_WORDS * WordBytes
          THEN [bad("AbiDecodingError") EXCEPT !.read = 3]
     ELSE tuple(SubSeq(blob.words, 4, WRAPPED_CLAIMS_WORDS), WRAPPED_CLAIMS_WORDS)

\* a comparison of the first byte only
domainMismatch_firstByte(claimsHex, domainHex) ==
  SubSeq(claimsHex, 1, 2) # SubSeq(domainHex, 1, 2)

\* `claimsHex !== domainHex` in verifyPaymentGuarantee
domainMismatch(claimsHex, domainHex) == claimsHex # domainHex

\* RecipientClient.verifyPaymentGuarantee
verifyPaymentGuarantee(cert, gd) ==
  LET dec == decodeGuaranteeClaims(cert.claims)
      domainHex == IF startsWith0x(gd) THEN SubSeq(gd, 3, Len(gd)) ELSE toHex(bufferFrom(gd))
      claimsHex == toHex(dec.claims.domain.bytes)
  IN IF ~dec.ok THEN dec
     ELSE IF domainMismatch(claimsHex, domainHex)
          THEN [dec EXCEPT !.ok = FALSE, !.err = "VerificationError", !.claims = NoClaims]
     ELSE dec

\* the strings Client.guaranteeDomain may hold
DomainStrings ==
  UNION {{<<"0", "x">> \o toHex(d), <<"0", "x">> \o toUpperHex(d), toHex(d)} : d \in Domains}

\* a claims field Buffer.from throws a TypeError on: a number, null,
\* undefined, a plain object
NotBytes == Data("other", FALSE, <<>>, 0)

\* certificates: claims is a hex string, a Uint8Array or neither; signature
\* is a string or not, and decompresses or not
Blobs ==
  {encodeGuaranteeClaims(ClaimsOf(d, 1)).blob : d \in Domains}
    \cup {Data("string", TRUE, SubSeq(encodeGuaranteeClaims(ClaimsOf(d, 1)).blob.words, 4,
                                      WRAPPED_CLAIMS_WORDS), 0) : d \in Domains}
    \cup {Data("string", TRUE, <<>>, 2 * SHORT_BLOB_BYTES)}
    \cup {Data("bytes", FALSE, encodeGuaranteeClaims(ClaimsOf(d, 1)).blob.words, 0) : d \in Domains}
    \cup {NotBytes}
Signatures == {"validPoint", "notAPoint", "notAString"}
Certs == [claims : Blobs, signature : Signatures]

RmInit(strings) ==
  /\ guaranteeDomain \in strings
  /\ rmPc = "idle"
  /\ rmCert = [claims |-> NoData, signature |-> "none"]
  /\ rmResult = "none"
  /\ sigCalls = 0
  /\ gatewayCalls = 0
  /\ rmLog = <<>>
  /\ rmField = "none"

\* RecipientClient.remunerate up to `await signatureToWordsAsync(...)`
remunerate(cert) ==
  /\ UNCHANGED rmFrame
  /\ rmPc = "idle"
  /\ rmCert' = cert
  /\ UNCHANGED <<guaranteeDomain, gatewayCalls>>
  /\ LET v == verifyPaymentGuarantee(cert, guaranteeDomain)
     IN IF ~v.ok
        THEN /\ rmPc' = "done"
             /\ rmResult' = v.err
             /\ rmLog' = <<"verifyFailed">>
             /\ rmField' = "none"
             /\ UNCHANGED sigCalls
        ELSE IF cert.claims.type # "string"
        THEN /\ rmPc' = "done"
             /\ rmResult' = "VerificationError"
             /\ rmLog' = <<"verified">>
             /\ rmField' = "claims"
             /\ UNCHANGED sigCalls
        ELSE IF cert.signature = "notAString"
        THEN /\ rmPc' = "done"
             /\ rmResult' = "VerificationError"
             /\ rmLog' = <<"verified">>
             /\ rmField' = "signature"
             /\ UNCHANGED sigCalls
        ELSE /\ rmPc' = "awaitSig"
             /\ rmResult' = "none"
             /\ rmField' = "none"
             /\ sigCalls' = sigCalls + 1
             /\ rmLog' = <<"verified", "signatureToWordsAsync">>

\* remunerate after `await signatureToWordsAsync(cert.signature)`
remunerateAfterSig(backendOk) ==
  /\ UNCHANGED rmFrame
  /\ rmPc = "awaitSig"
  /\ UNCHANGED <<guaranteeDomain, rmCert, sigCalls, rmField>>
  /\ IF backendOk /\ rmCert.signature = "validPoint"
     THEN /\ rmPc' = "awaitGateway"
          /\ gatewayCalls' = gatewayCalls + 1
          /\ rmLog' = rmLog \o <<"sigWords", "gateway.remunerate">>
          /\ UNCHANGED rmResult
     ELSE /\ rmPc' = "done"
          /\ rmResult' = IF backendOk THEN "VerificationError" ELSE "ERR_MODULE_NOT_FOUND"
          /\ rmLog' = Append(rmLog, "sigFailed")
          /\ UNCHANGED gatewayCalls

\* the promise returned by gateway.remunerate settles
remunerateAfterGateway(ok) ==
  /\ UNCHANGED rmFrame
  /\ rmPc = "awaitGateway"
  /\ rmPc' = "done"
  /\ rmResult' = IF ok THEN "receipt" ELSE "ContractError"
  /\ UNCHANGED <<guaranteeDomain, rmCert, sigCalls, gatewayCalls, rmLog, rmField>>

\* ---------------------------------------------------------------------------
\* BLS signature expansion and its lazily loaded backend (src/src/signing.ts)
\* ---------------------------------------------------------------------------
FP_HEX_CHARS == 96                         \* splitFp: padStart(96, '0'), one Fp element
G2_COMPRESSED_BYTES == 2 * (FP_HEX_CHARS \div 2)   \* a compressed G2 point: one Fp2 element
SHORT_SIGNATURE_BYTES == 2                 \* '0x1234'

NoModule == [by |-> "none", n |-> 0]
Module(b, k) == [by |-> b, n |-> k]

\* which of the four ways of loading the package work
Backends ==
  [require : BOOLEAN, requireJs : BOOLEAN, importJs : BOOLEAN, importBare : BOOLEAN]
FullBackend == [require |-> TRUE, requireJs |-> TRUE, importJs |-> TRUE, importBare |-> TRUE]

\* signature arguments: a string of so many bytes of hex that is or is not the
\* encoding of a curve point, or a value that is no string or byte array at all
BlsInputs ==
  { [type |-> "string", len |-> SHORT_SIGNATURE_BYTES, point |-> FALSE],
    [type |-> "string", len |-> G2_COMPRESSED_BYTES, point |-> FALSE],
    [type |-> "string", len |-> G2_COMPRESSED_BYTES, point |-> TRUE],
    [type |-> "number", len |-> 0, point |-> FALSE] }

BlsOk(m) == [ok |-> TRUE, err |-> "none", mod |-> m, words |-> 8]
BlsErr(e) == [ok |-> FALSE, err |-> e, mod |-> NoModule, words |-> 0]
NoBlsReturn == [api |-> "none", via |-> "none", res |-> BlsErr("none")]
BlsReturn(a, v, r) == [api |-> a, via |-> v, res |-> r]
BlsCall(p, v, sig, m) == [pc |-> p, via |-> v, sig |-> sig, mod |-> m]

NoCurvesPromise == [st |-> "none", mod |-> NoModule, err |-> "none"]

\* normalizeBlsImportError: every branch builds a VerificationError
normalizeBlsImportError(e) == "VerificationError"

\* loadCurvesSync
loadCurvesSync(cache, b) ==
  IF cache # NoModule THEN [ok |-> TRUE, mod |-> cache, err |-> "none"]
  ELSE IF b.require THEN [ok |-> TRUE, mod |-> Module("require", 0), err |-> "none"]
  ELSE IF b.requireJs THEN [ok |-> TRUE, mod |-> Module("requireJs", 0), err |-> "none"]
  ELSE [ok |-> FALSE, mod |-> NoModule, err |-> normalizeBlsImportError("MODULE_NOT_FOUND")]

\* pointCtor.fromHex of the library: the bytes must be a compressed G2 point
fromHexOk(sig) == sig.len = G2_COMPRESSED_BYTES /\ sig.point

\* signatureToWordsWith: every throw inside its try block, a VerificationError
\* of normalizeSignature included, is rethrown as a VerificationError
signatureToWordsWith(m, sig) ==
  IF sig.type # "string" THEN BlsErr("VerificationError")
  ELSE IF ~fromHexOk(sig) THEN BlsErr("VerificationError")
  ELSE BlsOk(m)

\* a test of the loading promise that never sees it
promiseSet_never(p) == FALSE

\* `if (curvesPromise)`
promiseSet(p) == p.st # "none"

BlsInit(backends) ==
  /\ curvesCache = NoModule
  /\ curvesPromise = NoCurvesPromise
  /\ loaderPc = "idle"
  /\ backend \in backends
  /\ blsCalls = <<>>
  /\ nBlsCalls = 0
  /\ asyncLoads = 0
  /\ blsReturned = NoBlsReturn

\* signatureToWords: the synchronous entry point
signatureToWords(sig) ==
  /\ UNCHANGED blsFrame
  /\ nBlsCalls < MaxBlsCalls
  /\ nBlsCalls' = nBlsCalls + 1
  /\ UNCHANGED <<curvesPromise, loaderPc, backend, blsCalls, asyncLoads>>
  /\ LET l == loadCurvesSync(curvesCache, backend)
     IN IF l.ok
        THEN /\ curvesCache' = l.mod
             /\ blsReturned' = BlsReturn("sync", "sync", signatureToWordsWith(l.mod, sig))
        ELSE /\ blsReturned' = BlsReturn("sync", "sync", BlsErr(l.err))
             /\ UNCHANGED curvesCache

\* signatureToWordsAsync up to `await loadCurvesAsync()`, with the part of the
\* loader that runs in the same job
signatureToWordsAsync(sig) ==
  /\ UNCHANGED blsFrame
  /\ nBlsCalls < MaxBlsCalls
  /\ nBlsCalls' = nBlsCalls + 1
  /\ blsReturned' = NoBlsReturn
  /\ UNCHANGED <<curvesCache, backend>>
  /\ IF curvesCache # NoModule
     THEN /\ blsCalls' = Append(blsCalls, BlsCall("haveCurves", "cache", sig, curvesCache))
          /\ UNCHANGED <<curvesPromise, loaderPc, asyncLoads>>
     ELSE IF promiseSet(curvesPromise)
     THEN /\ blsCalls' = Append(blsCalls, BlsCall("join", "join", sig, NoModule))
          /\ UNCHANGED <<curvesPromise, loaderPc, asyncLoads>>
     ELSE /\ asyncLoads' = asyncLoads + 1
          /\ blsCalls' = Append(blsCalls, BlsCall("own", "own", sig, NoModule))
          /\ IF backend.require
             THEN /\ curvesPromise' = [st |-> "resolved", err |-> "none",
                                       mod |-> Module("require", asyncLoads + 1)]
                  /\ loaderPc' = "done"
             ELSE /\ curvesPromise' = [st |-> "pending", err |-> "none", mod |-> NoModule]
                  /\ loaderPc' = "importJs"

\* the loader after `await import('@noble/curves/bls12-381.js')`
importJsSettles ==
  /\ UNCHANGED blsFrame
  /\ loaderPc = "importJs"
  /\ blsReturned' = NoBlsReturn
  /\ UNCHANGED <<curvesCache, backend, blsCalls, nBlsCalls, asyncLoads>>
  /\ IF backend.importJs
     THEN /\ curvesPromise' = [st |-> "resolved", err |-> "none",
                               mod |-> Module("importJs", asyncLoads)]
          /\ loaderPc' = "done"
     ELSE /\ loaderPc' = "importBare"
          /\ UNCHANGED curvesPromise

\* the loader after `await import('@noble/curves/bls12-381')`: when this import
\* fails too, its error is what the promise rejects with
importBareSettles ==
  /\ UNCHANGED blsFrame
  /\ loaderPc = "importBare"
  /\ blsReturned' = NoBlsReturn
  /\ loaderPc' = "done"
  /\ UNCHANGED <<curvesCache, backend, blsCalls, nBlsCalls, asyncLoads>>
  /\ IF backend.importBare
     THEN curvesPromise' = [st |-> "resolved", err |-> "none",
                            mod |-> Module("importBare", asyncLoads)]
     ELSE curvesPromise' = [st |-> "rejected", err |-> "ERR_MODULE_NOT_FOUND",
                            mod |-> NoModule]

\* loadCurvesAsync after `curvesCache = await curvesPromise` in the call that
\* created the promise
loadCurvesAsyncResume(i) ==
  /\ UNCHANGED blsFrame
  /\ i \in 1..Len(blsCalls)
  /\ blsCalls[i].pc = "own"
  /\ curvesPromise.st \in {"resolved", "rejected"}
  /\ UNCHANGED <<curvesPromise, loaderPc, backend, nBlsCalls, asyncLoads>>
  /\ IF curvesPromise.st = "resolved"
     THEN /\ curvesCache' = curvesPromise.mod
          /\ blsCalls' = [blsCalls EXCEPT ![i] = BlsCall("haveCurves", "own", blsCalls[i].sig,
                                                         curvesPromise.mod)]
          /\ blsReturned' = NoBlsReturn
     ELSE /\ blsCalls' = without(blsCalls, i)
          /\ blsReturned' = BlsReturn("async", "own", BlsErr(curvesPromise.err))
          /\ UNCHANGED curvesCache

\* a call that returned the shared promise from loadCurvesAsync continues once
\* the promise has settled, after the call that created it
joinResume(i) ==
  /\ UNCHANGED blsFrame
  /\ i \in 1..Len(blsCalls)
  /\ blsCalls[i].pc = "join"
  /\ curvesPromise.st \in {"resolved", "rejected"}
  /\ \A j \in 1..Len(blsCalls) : blsCalls[j].pc # "own"
  /\ UNCHANGED <<curvesCache, curvesPromise, loaderPc, backend, nBlsCalls, asyncLoads>>
  /\ IF curvesPromise.st = "resolved"
     THEN /\ blsCalls' = [blsCalls EXCEPT ![i] = BlsCall("haveCurves", "join", blsCalls[i].sig,
                                                         curvesPromise.mod)]
          /\ blsReturned' = NoBlsReturn
     ELSE /\ blsCalls' = without(blsCalls, i)
          /\ blsReturned' = BlsReturn("async", "join", BlsErr(curvesPromise.err))

\* signatureToWordsAsync after `await loadCurvesAsync()`
signatureToWordsAsyncResume(i) ==
  /\ UNCHANGED blsFrame
  /\ i \in 1..Len(blsCalls)
  /\ blsCalls[i].pc = "haveCurves"
  /\ blsCalls' = without(blsCalls, i)
  /\ blsReturned' = BlsReturn("async", blsCalls[i].via,
                              signatureToWordsWith(blsCalls[i].mod, blsCalls[i].sig))
  /\ UNCHANGED <<curvesCache, curvesPromise, loaderPc, backend, nBlsCalls, asyncLoads>>

\* ---------------------------------------------------------------------------
\* The guarantee codec applied to arguments of every shape
\* ---------------------------------------------------------------------------
ShortDomain == [i \in 1..(DomainLen - 1) |-> 0]
LongDomain == [i \in 1..(DomainLen + 1) |-> 0]
TestDomains == {ZeroDomain, [ZeroDomain EXCEPT ![DomainLen] = 171], ShortDomain, LongDomain}

\* claims.domain as bytes, as a 0x hex string and as a string of bare hex digits
DomainArgs ==
  {BytesArg(d) : d \in TestDomains}
    \cup {StringArg(hexFromBytes(d)) : d \in TestDomains}
    \cup {StringArg(toHex(ZeroDomain))}

ClaimsInputs ==
  { [ClaimsOf(ZeroDomain, v) EXCEPT !.domain = d, !.userAddress = u, !.assetAddress = a,
                                    !.amount = m]
      : v \in {0, 1, 2}, d \in DomainArgs, u \in Addresses,
        a \in {"0x0000000000000000000000000000000000000000",
               "0x1234567890abcdef1234567890abcdef12345678"},
        m \in {3, -1} }

\* a wrapped blob with the given outer version around the given tuple
wrap(outer, tupleWords) ==
  <<outer, 2 * WordBytes, CLAIMS_ENCODED_WORDS * WordBytes>> \o tupleWords

TupleInputs == {claimWords(ClaimsOf(d, v), d) : d \in {ZeroDomain}, v \in {0, 1, 2}}

WordInputs ==
  TupleInputs
    \cup {wrap(o, t) : o \in {0, 1, 2}, t \in TupleInputs}
    \cup {SubSeq(t, 1, n) : t \in TupleInputs, n \in {0, CLAIMS_ENCODED_WORDS - 1}}
    \cup {t \o <<0>> : t \in TupleInputs}
    \cup {wrap(1, t) \o <<0>> : t \in TupleInputs}

\* data as a 0x string, a bare hex string and a byte array; with whole words
\* only, with one further byte, or (strings) with one further hex digit
DataInputs ==
  {Data(t, p, ws, x) : t \in {"string"}, p \in BOOLEAN, ws \in WordInputs, x \in {0, 1, 2}}
    \cup {Data("bytes", FALSE, ws, x) : ws \in WordInputs, x \in {0, 2}}
    \cup {Data("string", TRUE, <<>>, 2 * SHORT_BLOB_BYTES)}
    \cup {Data("other", FALSE, <<>>, 0)}

NoEnc == [ok |-> FALSE, err |-> "none", blob |-> NoData]
NoDec == [ok |-> FALSE, err |-> "none", claims |-> NoClaims, observed |-> 0, read |-> 0]

CodecInit ==
  /\ cdOp = "none"
  /\ cdClaims = NoClaims
  /\ cdEnc = NoEnc
  /\ cdData = NoData
  /\ cdDec = NoDec

\* encodeGuaranteeClaims(claims)
encodeCall(c) ==
  /\ UNCHANGED codecFrame
  /\ cdOp = "none"
  /\ cdOp' = "encode"
  /\ cdClaims' = c
  /\ cdEnc' = encodeGuaranteeClaims(c)
  /\ cdData' = NoData
  /\ cdDec' = NoDec

\* decodeGuaranteeClaims(data)
decodeCall(d) ==
  /\ UNCHANGED codecFrame
  /\ cdOp = "none"
  /\ cdOp' = "decode"
  /\ cdData' = d
  /\ cdDec' = decodeGuaranteeClaims(d)
  /\ cdClaims' = NoClaims
  /\ cdEnc' = NoEnc

\* decodeGuaranteeClaims(encodeGuaranteeClaims(claims))
decodeEncoded ==
  /\ UNCHANGED codecFrame
  /\ cdOp = "encode" /\ cdEnc.ok
  /\ cdOp' = "roundTrip"
  /\ cdData' = cdEnc.blob
  /\ cdDec' = decodeGuaranteeClaims(cdEnc.blob)
  /\ UNCHANGED <<cdClaims, cdEnc>>

\* ---------------------------------------------------------------------------
\* PaymentSigner.signRequest (signing.ts)
\* ---------------------------------------------------------------------------
MaxSignCalls == 2

\* a string that is no address at all
NotAnAddress == "0x12"
UserAddressInputs == Addresses \cup {NotAnAddress}

\* the private keys a signer is built from give these wallet addresses
SignerAddresses ==
  {"0x0000000000000000000000000000000000000001",
   "0x1234567890AbcdEF1234567890aBcdef12345678"}

SigningSchemes == {"eip712", "eip191", "unsupported"}

\* normalizeAddress: the checksum spelling of an address that is valid as
\* given or valid once lowercased, ValidationError otherwise
normalizeAddress(raw) ==
  IF raw \notin Addresses THEN [ok |-> FALSE, err |-> "ValidationError", val |-> raw]
  ELSE IF isAddress(raw) THEN [ok |-> TRUE, err |-> "none", val |-> checksumAddress(raw)]
  ELSE IF isAddress(toLowerCase(raw))
    THEN [ok |-> TRUE, err |-> "none", val |-> checksumAddress(toLowerCase(raw))]
  ELSE [ok |-> FALSE, err |-> "ValidationError", val |-> raw]

\* a check that lets every pair of addresses through
signerMismatch_never(signer, user) == FALSE

\* signer !== user
signerMismatch(signer, user) == signer # user

\* validateGuaranteeSigningContext(params, claims, { signerAddress }): the
\* error it throws, "none" when it returns
validateGuaranteeSigningContext(signerAddress, userAddress) ==
  LET signer == normalizeAddress(signerAddress)
      user == normalizeAddress(userAddress)
  IN IF ~signer.ok THEN signer.err
     ELSE IF ~user.ok THEN user.err
     ELSE IF signerMismatch(signer.val, user.val) THEN "ValidationError"
     ELSE "none"

NoSignResult == [ok |-> FALSE, err |-> "none", scheme |-> "none"]
SigningError == [ok |-> FALSE, err |-> "SigningError", scheme |-> "none"]
PaymentSignature(scheme) == [ok |-> TRUE, err |-> "none", scheme |-> scheme]

\* the wallet operation a scheme signs with
walletOperation(scheme) == IF scheme = "eip712" THEN "signTypedData" ELSE "signMessage"

SgInit ==
  /\ sgSigner \in SignerAddresses
  /\ sgPc = "idle"
  /\ sgUser = NotAnAddress
  /\ sgScheme = "none"
  /\ sgResult = NoSignResult
  /\ walletCalls = <<>>
  /\ nSign = 0

\* signRequest(params, claims, scheme) up to its await: every error thrown
\* inside the try block leaves as a SigningError
signRequest(user, scheme) ==
  /\ UNCHANGED sgFrame
  /\ sgPc # "signing"
  /\ nSign < MaxSignCalls
  /\ nSign' = nSign + 1
  /\ sgUser' = user
  /\ sgScheme' = scheme
  /\ UNCHANGED sgSigner
  /\ IF validateGuaranteeSigningContext(sgSigner, user) # "none"
       THEN sgPc' = "done" /\ sgResult' = SigningError /\ UNCHANGED walletCalls
     ELSE IF scheme \in {"eip712", "eip191"}
       THEN /\ sgPc' = "signing"
            /\ sgResult' = NoSignResult
            /\ walletCalls' = Append(walletCalls, walletOperation(scheme))
     ELSE sgPc' = "done" /\ sgResult' = SigningError /\ UNCHANGED walletCalls

\* wallet.signTypedData / wallet.signMessage settles: the signature is
\* returned with the scheme, a rejection leaves as a SigningError
walletSettles(ok) ==
  /\ UNCHANGED sgFrame
  /\ sgPc = "signing"
  /\ sgPc' = "done"
  /\ sgResult' = IF ok THEN PaymentSignature(sgScheme) ELSE SigningError
  /\ UNCHANGED <<sgSigner, sgUser, sgScheme, walletCalls, nSign>>

\* ---------------------------------------------------------------------------
\* ContractGateway.payTabEth / payTabErc20 (contract.ts)
\* ---------------------------------------------------------------------------
MaxGatewayCalls == 3

\* the amount arguments: one parseU256 rejects, one it accepts
AmountInputs == {-1, 10}

\* one call: the client operation it submits through, where it stands, how
\* often it has invoked that operation and how it settled
GatewayCall(op, pc, n, res) == [op |-> op, pc |-> pc, submits |-> n, result |-> res]

GwInit == gwCalls = <<>>

\* a call up to its first await: the arguments are converted and the client
\* operation is invoked in the caller's job
submitted(op, amount) ==
  IF parseU256(amount).ok
  THEN GatewayCall(op, "submitting", 1, "none")
  ELSE GatewayCall(op, "done", 0, "ValidationError")

\* payTabEth up to `await this.walletClient.sendTransaction({...})`
payTabEth(amount) ==
  /\ UNCHANGED gwFrame
  /\ Len(gwCalls) < MaxGatewayCalls
  /\ gwCalls' = Append(gwCalls, submitted("walletClient.sendTransaction", amount))

\* payTabErc20 up to `await this.contract.write.payTabInERC20Token([...])`
payTabErc20(amount) ==
  /\ UNCHANGED gwFrame
  /\ Len(gwCalls) < MaxGatewayCalls
  /\ gwCalls' = Append(gwCalls, submitted("contract.write", amount))

\* a rejection that also fails every submission issued after it
afterSubmission_rejectsLater(cs, i, ok) ==
  [j \in 1..Len(cs) |->
     IF j = i /\ ok THEN [cs[j] EXCEPT !.pc = "awaitReceipt"]
     ELSE IF j >= i /\ ~ok /\ cs[j].pc = "submitting"
       THEN [cs[j] EXCEPT !.pc = "done", !.result = "rejected"]
     ELSE cs[j]]

\* `const hash = await <submission>` in call i: with a hash the call goes on
\* to waitForTransactionReceipt, a rejection is thrown to the call's caller;
\* no other call shares anything with it
afterSubmission(cs, i, ok) ==
  [cs EXCEPT ![i] =
     IF ok THEN [@ EXCEPT !.pc = "awaitReceipt"]
     ELSE [@ EXCEPT !.pc = "done", !.result = "rejected"]]

\* the submission of call i settles
submissionSettles(i, ok) ==
  /\ UNCHANGED gwFrame
  /\ i \in 1..Len(gwCalls)
  /\ gwCalls[i].pc = "submitting"
  /\ gwCalls' = afterSubmission(gwCalls, i, ok)

\* publicClient.waitForTransactionReceipt of call i settles
receiptSettles(i, ok) ==
  /\ UNCHANGED gwFrame
  /\ i \in 1..Len(gwCalls)
  /\ gwCalls[i].pc = "awaitReceipt"
  /\ gwCalls' = [gwCalls EXCEPT ![i] =
        [@ EXCEPT !.pc = "done", !.result = IF ok THEN "receipt" ELSE "receiptError"]]

\* ---------------------------------------------------------------------------
\* Numeric parsing (src/src/utils.ts)
\* ---------------------------------------------------------------------------
MaxTextLen == 3

\* the characters of the numeric strings
TextChars == {"0", "1", "a", "x", "-", " "}
Texts == UNION {[1..n -> TextChars] : n \in 0..MaxTextLen}

\* the values of type number and bigint: an integer, or for a number one of
\* the non-integers
Numbers ==
  [type : {"number"}, class : {"integer", "fraction"}, val : -2..2]
    \cup [type : {"number"}, class : {"NaN", "Infinity"}, val : {-1, 1}]
BigInts == [type : {"bigint"}, val : -2..2]
NumericInputs ==
  Numbers \cup BigInts \cup {[type |-> "string", text |-> t] : t \in Texts}
    \cup {[type |-> "undefined"]}

Parsed(v) == [ok |-> TRUE, err |-> "none", val |-> v]
Thrown(e) == [ok |-> FALSE, err |-> e, val |-> 0]

\* String.prototype.trim
RECURSIVE trimStart(_)
trimStart(t) == IF t # <<>> /\ Head(t) = " " THEN trimStart(Tail(t)) ELSE t
RECURSIVE trimEnd(_)
trimEnd(t) ==
  IF t # <<>> /\ t[Len(t)] = " " THEN trimEnd(SubSeq(t, 1, Len(t) - 1)) ELSE t
trim(t) == trimEnd(trimStart(t))

\* the value of a digit in a base, -1 for any other character
digitIn(ch, base) ==
  LET ds == {i \in 1..base : HexChars[i] = ch \/ UpperHexChars[i] = ch}
  IN IF ds = {} THEN -1 ELSE (CHOOSE i \in ds : TRUE) - 1

\* the value of a non-empty run of digits, -1 when a character is no digit
RECURSIVE digitsValue(_, _, _)
digitsValue(t, base, acc) ==
  IF t = <<>> THEN acc
  ELSE IF digitIn(Head(t), base) < 0 THEN -1
  ELSE digitsValue(Tail(t), base, acc * base + digitIn(Head(t), base))

\* BigInt(text) (StringToBigInt): the empty string is 0n, a 0x prefix reads
\* hex digits, a sign is allowed before decimal digits only, anything else
\* throws SyntaxError
BigIntOfString(t) ==
  LET isHexLit == Len(t) >= 2 /\ t[1] = "0" /\ t[2] \in {"x", "X"}
      signed == t # <<>> /\ Head(t) \in {"-", "+"}
      body == IF isHexLit THEN SubSeq(t, 3, Len(t)) ELSE IF signed THEN Tail(t) ELSE t
      v == digitsValue(body, IF isHexLit THEN 16 ELSE 10, 0)
  IN IF t = <<>> THEN Parsed(0)
     ELSE IF body = <<>> \/ v < 0 THEN Thrown("SyntaxError")
     ELSE IF signed /\ Head(t) = "-" THEN Parsed(0 - v)
     ELSE Parsed(v)

\* parseNumericString
parseNumericString(raw) ==
  LET n == BigIntOfString(trim(raw))
  IN IF ~n.ok THEN n
     ELSE IF n.val < 0 THEN Thrown("ValidationError")
     ELSE n

\* parseU256 over all the types its argument can have
parseU256Value(value) ==
  IF value.type = "number"
  THEN IF value.class \in {"NaN", "Infinity"} THEN Thrown("ValidationError")
       ELSE IF value.val < 0 THEN Thrown("ValidationError")
       ELSE IF value.class = "fraction" THEN Thrown("RangeError")
       ELSE Parsed(value.val)
  ELSE IF value.type = "bigint"
  THEN IF parseU256(value.val).ok THEN Parsed(value.val) ELSE Thrown("ValidationError")
  ELSE IF value.type = "string" THEN parseNumericString(value.text)
  ELSE Thrown("ValidationError")

PfInit == pfOp = "none" /\ pfArg = <<>> /\ pfRes = <<>>

\* one call parseU256(value)
parseU256Call(value) ==
  /\ UNCHANGED pfFrame
  /\ pfOp = "none"
  /\ pfOp' = "parseU256"
  /\ pfArg' = value
  /\ pfRes' = parseU256Value(value)

\* ---------------------------------------------------------------------------
\* validateGuaranteeTypedData (src/src/signing.ts)
\* ---------------------------------------------------------------------------
Field(n, t) == [name |-> n, type |-> t]

\* GUARANTEE_EIP712_TYPES.SolGuaranteeRequestClaimsV1
SolGuaranteeRequestClaimsV1 ==
  << Field("user", "address"), Field("recipient", "address"), Field("tabId", "uint256"),
     Field("reqId", "uint256"), Field("amount", "uint256"), Field("asset", "address"),
     Field("timestamp", "uint64") >>

\* the field lists a payload may carry: the schema itself, two of its fields
\* exchanged, one renamed, one retyped, one dropped, one repeated in place of
\* another, one added
FieldPositions == 1..Len(SolGuaranteeRequestClaimsV1)
FieldLists ==
  {SolGuaranteeRequestClaimsV1}
    \cup {[SolGuaranteeRequestClaimsV1 EXCEPT ![i] = SolGuaranteeRequestClaimsV1[j],
                                              ![j] = SolGuaranteeRequestClaimsV1[i]] :
            i, j \in FieldPositions}
    \cup {[SolGuaranteeRequestClaimsV1 EXCEPT ![i].name = "owner"] : i \in FieldPositions}
    \cup {[SolGuaranteeRequestClaimsV1 EXCEPT ![i].type = "bytes32"] : i \in FieldPositions}
    \cup {without(SolGuaranteeRequestClaimsV1, i) : i \in FieldPositions}
    \cup {[SolGuaranteeRequestClaimsV1 EXCEPT ![i] = SolGuaranteeRequestClaimsV1[j]] :
            i, j \in FieldPositions}
    \cup {Append(SolGuaranteeRequestClaimsV1, Field("nonce", "uint256"))}

\* the payloads: types.SolGuaranteeRequestClaimsV1 and whether it is an array
\* (or an object with these entries), whether the message has its seven
\* fields, and message.user
TypedDataPayloads ==
  [fields : FieldLists, isArray : BOOLEAN, complete : BOOLEAN,
   user : {"0x0000000000000000000000000000000000000001", NotAnAddress}]

\* norm(list): the `name:type` keys of a list; the sort that follows is not
\* observed, the keys only go into a Set or through every()
norm(list) == [i \in 1..Len(list) |-> <<list[i].name, list[i].type>>]

\* a comparison of the two lists position by position
fieldsMatch_inOrder(actual, isArray, expected) == isArray /\ actual = expected

\* fieldsMatch
fieldsMatch(actual, isArray, expected) ==
  IF ~isArray \/ Len(actual) # Len(expected) THEN FALSE
  ELSE LET actualSet == {norm(actual)[i] : i \in 1..Len(actual)}
       IN \A i \in 1..Len(expected) : norm(expected)[i] \in actualSet

\* validateGuaranteeTypedData(payload) without options: "accepted" when it
\* returns, otherwise the error it throws
validateGuaranteeTypedData(payload) ==
  IF ~fieldsMatch(payload.fields, payload.isArray, SolGuaranteeRequestClaimsV1)
  THEN "ValidationError"
  ELSE IF ~payload.complete THEN "ValidationError"
  ELSE IF ~normalizeAddress(payload.user).ok THEN normalizeAddress(payload.user).err
  ELSE "accepted"

\* one call validateGuaranteeTypedData(payload)
validateCall(payload) ==
  /\ UNCHANGED pfFrame
  /\ pfOp = "none"
  /\ pfOp' = "validateGuaranteeTypedData"
  /\ pfArg' = payload
  /\ pfRes' = validateGuaranteeTypedData(payload)

\* ---------------------------------------------------------------------------
\* Client.new and the bearer token of RpcProxy (client/index.ts, rpc.ts)
\* ---------------------------------------------------------------------------
MaxRpcRequests == 3

BearerPrefix == <<"B", "e", "a", "r", "e", "r", " ">>

\* token strings, as sequences of characters; <<>> also stands for undefined
TokenStrings ==
  { <<>>, <<" ">>, <<"t">>, <<" ", "t", " ">>,
    BearerPrefix \o <<"t">>,
    <<"b", "e", "a", "r", "e", "r", " ", "t">>,
    <<"B", "E", "A", "R", "E", "R", " ", " ", "t">>,
    <<"B", "e", "a", "r", "e", "r", "t">> }

\* the configurations: a static token or none, SIWE auth enabled or not
Configs == [bearerToken : TokenStrings, authUrl : BOOLEAN, authRefreshMarginSecs : BOOLEAN]

\* String.prototype.toLowerCase on the letters of the prefix
lowerChar(ch) ==
  CASE ch = "B" -> "b" [] ch = "E" -> "e" [] ch = "A" -> "a" [] ch = "R" -> "r"
    [] OTHER -> ch

\* /^bearer\s+/i.test(text)
hasBearerPrefix(text) ==
  /\ Len(text) >= Len(BearerPrefix)
  /\ [i \in 1..(Len(BearerPrefix) - 1) |-> lowerChar(text[i])] = <<"b", "e", "a", "r", "e", "r">>
  /\ text[Len(BearerPrefix)] = " "

\* a proxy that does not look at its static token
staticToken_ignored(token) == <<>>

\* `let token = this.bearerToken`: what `!token` then tests
staticToken(token) == token

\* resolveBearerToken once the token is known: the Authorization value,
\* <<>> for undefined
authorizationOf(token) ==
  IF token = <<>> THEN <<>>
  ELSE IF hasBearerPrefix(trim(token)) THEN trim(token)
  ELSE BearerPrefix \o trim(token)

RpcInit ==
  /\ clientCfg = <<>>
  /\ authSession = FALSE
  /\ bearerToken = <<>>
  /\ bearerTokenProvider = FALSE
  /\ providerCalls = 0
  /\ rpcWaiting = 0
  /\ rpcSent = 0
  /\ rpcAuthorization = <<>>

\* Client.new(cfg), from the AuthSession decision on
ClientNew(cfg) ==
  /\ UNCHANGED rpcFrame
  /\ clientCfg = <<>>
  /\ bearerToken = <<>> /\ ~bearerTokenProvider
  /\ clientCfg' = <<cfg>>
  /\ LET authEnabled == cfg.authUrl \/ cfg.authRefreshMarginSecs
         session == ~(cfg.bearerToken # <<>> \/ ~authEnabled)
     IN /\ authSession' = session
        /\ IF cfg.bearerToken # <<>>
           THEN bearerToken' = cfg.bearerToken /\ UNCHANGED bearerTokenProvider
           ELSE IF session
           THEN bearerTokenProvider' = TRUE /\ UNCHANGED bearerToken
           ELSE UNCHANGED <<bearerToken, bearerTokenProvider>>
  /\ UNCHANGED <<providerCalls, rpcWaiting, rpcSent, rpcAuthorization>>

\* RpcProxy.withBearerToken, called on the proxy directly
withBearerToken(token) ==
  /\ UNCHANGED rpcFrame
  /\ bearerToken = <<>>
  /\ bearerToken' = token
  /\ UNCHANGED <<clientCfg, authSession, bearerTokenProvider, providerCalls, rpcWaiting,
                 rpcSent, rpcAuthorization>>

\* RpcProxy.withTokenProvider, called on the proxy directly
withTokenProvider ==
  /\ UNCHANGED rpcFrame
  /\ ~bearerTokenProvider
  /\ bearerTokenProvider' = TRUE
  /\ UNCHANGED <<clientCfg, authSession, bearerToken, providerCalls, rpcWaiting, rpcSent,
                 rpcAuthorization>>

\* one RPC request up to the await of the token provider, or up to fetch
\* when the provider is not called
rpcRequest ==
  /\ UNCHANGED rpcFrame
  /\ rpcSent + providerCalls < MaxRpcRequests
  /\ UNCHANGED <<clientCfg, authSession, bearerToken, bearerTokenProvider>>
  /\ IF staticToken(bearerToken) = <<>> /\ bearerTokenProvider
     THEN /\ providerCalls' = providerCalls + 1
          /\ rpcWaiting' = rpcWaiting + 1
          /\ UNCHANGED <<rpcSent, rpcAuthorization>>
     ELSE /\ rpcSent' = rpcSent + 1
          /\ rpcAuthorization' = authorizationOf(staticToken(bearerToken))
          /\ UNCHANGED <<providerCalls, rpcWaiting>>

\* the token provider resolves and the request goes to fetch
providerResolves(token) ==
  /\ UNCHANGED rpcFrame
  /\ rpcWaiting > 0
  /\ rpcWaiting' = rpcWaiting - 1
  /\ rpcSent' = rpcSent + 1
  /\ rpcAuthorization' = authorizationOf(token)
  /\ UNCHANGED <<clientCfg, authSession, bearerToken, bearerTokenProvider, providerCalls>>

\* the token provider rejects and the request fails before fetch
providerRejects ==
  /\ UNCHANGED rpcFrame
  /\ rpcWaiting > 0
  /\ rpcWaiting' = rpcWaiting - 1
  /\ UNCHANGED <<clientCfg, authSession, bearerToken, bearerTokenProvider, providerCalls,
                 rpcSent, rpcAuthorization>>

\* ---------------------------------------------------------------------------
\* splitFp and the words of a signature (src/src/signing.ts)
\* ---------------------------------------------------------------------------
FP_HI_OFFSET == 16      \* hi.set(bytes.slice(0, 16), 16)

\* field elements, written as value.toString(16) writes them: lowercase hex
\* digits without leading zeros, up to 96 of them (values below 2^384)
FieldElements ==
  {<<"0">>}
    \cup {<<d>> \o [i \in 1..n |-> f] :
            d \in {"1", "f"}, f \in {"0", "a", "f"}, n \in 0..(FP_HEX_CHARS - 1)}

\* the coordinates the affine points are built from: 0, 1, 2^256 and 2^384 - 1
CoordInputs ==
  { <<"0">>, <<"1">>, <<"1">> \o [i \in 1..(2 * WordBytes) |-> "0"],
    [i \in 1..FP_HEX_CHARS |-> "f"] }

\* point.toAffine(): x and y are Fp2 elements with coefficients c0 and c1
AffinePoints ==
  [x : [c0 : CoordInputs, c1 : CoordInputs], y : [c0 : CoordInputs, c1 : CoordInputs]]

\* padding at the wrong end
padStart_atEnd(t, n, ch) ==
  IF Len(t) >= n THEN t ELSE t \o [i \in 1..(n - Len(t)) |-> ch]

\* String.prototype.padStart
padStart(t, n, ch) ==
  IF Len(t) >= n THEN t ELSE [i \in 1..(n - Len(t)) |-> ch] \o t

\* splitFp: <<hi, lo>>
splitFp(value) ==
  LET be48 == padStart(value, FP_HEX_CHARS, "0")
      bytes == toBytes(<<"0", "x">> \o be48)
      hi == [i \in 1..WordBytes |->
               IF i > FP_HI_OFFSET /\ i - FP_HI_OFFSET <= Len(bytes)
               THEN bytes[i - FP_HI_OFFSET] ELSE 0]
      lo == SubSeq(bytes, FP_HI_OFFSET + 1, Len(bytes))
  IN <<hi, lo>>

\* readFp2
readFp2(value) == <<value.c0, value.c1>>

\* signatureToWordsWith from point.toAffine() on: the words pushed, in order
affineToWords(affine) ==
  LET coords == readFp2(affine.x) \o readFp2(affine.y)
      pair(k) == splitFp(coords[k])
  IN pair(1) \o pair(2) \o pair(3) \o pair(4)

\* one call splitFp(value)
splitFpCall(value) ==
  /\ UNCHANGED pfFrame
  /\ pfOp = "none"
  /\ pfOp' = "splitFp"
  /\ pfArg' = value
  /\ pfRes' = splitFp(value)

\* signatureToWords on a signature that decompresses to the point `affine`
signatureToWordsCall(affine) ==
  /\ UNCHANGED pfFrame
  /\ pfOp = "none"
  /\ pfOp' = "signatureToWords"
  /\ pfArg' = affine
  /\ pfRes' = affineToWords(affine)

Init ==
  /\ AuthInit
  /\ RmInit({<<"0", "x">> \o toHex(ZeroDomain)})
  /\ BlsInit({FullBackend})
  /\ CodecInit
  /\ SgInit
  /\ GwInit
  /\ PfInit
  /\ RpcInit

InitRemunerate ==
  /\ AuthInit /\ RmInit(DomainStrings) /\ BlsInit({FullBackend})
  /\ CodecInit /\ SgInit /\ GwInit /\ PfInit /\ RpcInit

InitBls ==
  /\ AuthInit
  /\ RmInit({<<"0", "x">> \o toHex(ZeroDomain)})
  /\ BlsInit(Backends)
  /\ CodecInit
  /\ SgInit
  /\ GwInit
  /\ PfInit
  /\ RpcInit

Next ==
  \/ Tick
  \/ accessToken
  \/ login
  \/ logout
  \/ \E c \in 1..MaxCalls, ok \in BOOLEAN : logoutResponse(c, ok)
  \/ \E ok \in BOOLEAN : nonceResponse(ok)
  \/ \E ok \in BOOLEAN : signDone(ok)
  \/ \E ok \in BOOLEAN, x \in ExpiresInSet : verifyResponse(ok, x)
  \/ \E e \in RefreshErrors \cup {"ok"}, x \in ExpiresInSet : refreshResponse(e, x)
  \/ rolLoginResume
  \/ rolResume
  \/ \E c \in 1..MaxCalls : accessTokenResume(c)
  \/ \E c \in 1..MaxCalls : loginResume(c)

Spec == Init /\ [][Next]_vars

\* what the event loop and the network do on their own: a settled promise's
\* continuations run, and every request sent is answered or fails
Progress ==
  \/ \E c \in 1..MaxCalls, ok \in BOOLEAN : logoutResponse(c, ok)
  \/ \E ok \in BOOLEAN : nonceResponse(ok)
  \/ \E ok \in BOOLEAN : signDone(ok)
  \/ \E ok \in BOOLEAN, x \in ExpiresInSet : verifyResponse(ok, x)
  \/ \E e \in RefreshErrors \cup {"ok"}, x \in ExpiresInSet : refreshResponse(e, x)
  \/ rolLoginResume
  \/ rolResume
  \/ \E c \in 1..MaxCalls : accessTokenResume(c)
  \/ \E c \in 1..MaxCalls : loginResume(c)

\* the session with no hung network call.  No step below reads the clock
\* except through isExpiringSoon at the entry of accessToken(), and expires_in
\* values on both sides of the margin make both outcomes of that test happen
\* with the clock standing still.
NextLive ==
  \/ accessToken
  \/ login
  \/ logout
  \/ Progress

SpecLive == Init /\ [][NextLive]_vars /\ WF_vars(Progress)

NextRemunerate ==
  \/ \E cert \in Certs : remunerate(cert)
  \/ \E ok \in BOOLEAN : remunerateAfterSig(ok)
  \/ \E ok \in BOOLEAN : remunerateAfterGateway(ok)

SpecRemunerate == InitRemunerate /\ [][NextRemunerate]_vars

NextBls ==
  \/ \E sig \in BlsInputs : signatureToWords(sig)
  \/ \E sig \in BlsInputs : signatureToWordsAsync(sig)
  \/ importJsSettles
  \/ importBareSettles
  \/ \E i \in 1..MaxBlsCalls : loadCurvesAsyncResume(i)
  \/ \E i \in 1..MaxBlsCalls : joinResume(i)
  \/ \E i \in 1..MaxBlsCalls : signatureToWordsAsyncResume(i)

SpecBls == InitBls /\ [][NextBls]_vars

NextCodec ==
  \/ \E c \in ClaimsInputs : encodeCall(c)
  \/ \E d \in DataInputs : decodeCall(d)
  \/ decodeEncoded

SpecCodec == Init /\ [][NextCodec]_vars

NextSigner ==
  \/ \E user \in UserAddressInputs, scheme \in SigningSchemes : signRequest(user, scheme)
  \/ \E ok \in BOOLEAN : walletSettles(ok)

SpecSigner == Init /\ [][NextSigner]_vars

NextGateway ==
  \/ \E amount \in AmountInputs : payTabEth(amount)
  \/ \E amount \in AmountInputs : payTabErc20(amount)
  \/ \E i \in 1..MaxGatewayCalls, ok \in BOOLEAN : submissionSettles(i, ok)
  \/ \E i \in 1..MaxGatewayCalls, ok \in BOOLEAN : receiptSettles(i, ok)

SpecGateway == Init /\ [][NextGateway]_vars

\* every promise of the chain client settles
GatewayProgress ==
  \/ \E i \in 1..MaxGatewayCalls, ok \in BOOLEAN : submissionSettles(i, ok)
  \/ \E i \in 1..MaxGatewayCalls, ok \in BOOLEAN : receiptSettles(i, ok)

SpecGatewayLive == Init /\ [][NextGateway]_vars /\ WF_vars(GatewayProgress)

NextParse == \E value \in NumericInputs : parseU256Call(value)

SpecParse == Init /\ [][NextParse]_vars

NextValidate == \E payload \in TypedDataPayloads : validateCall(payload)

SpecValidate == Init /\ [][NextValidate]_vars

NextRpc ==
  \/ \E cfg \in Configs : ClientNew(cfg)
  \/ \E token \in TokenStrings : withBearerToken(token)
  \/ withTokenProvider
  \/ rpcRequest
  \/ \E token \in TokenStrings : providerResolves(token)
  \/ providerRejects

SpecRpc == Init /\ [][NextRpc]_vars

NextSplit ==
  \/ \E value \in FieldElements : splitFpCall(value)
  \/ \E affine \in AffinePoints : signatureToWordsCall(affine)

SpecSplit == Init /\ [][NextSplit]_vars

\* ---------------------------------------------------------------------------
\* Properties of AuthSession
\* ---------------------------------------------------------------------------
AccessTokenStep == accessToken
NetworkQuiet == UNCHANGED <<nonceCalls, verifyCalls, refreshCalls, logoutCalls>>
Fresh == tokens.set /\ now + refreshMarginSecs < tokens.expiresAt
LoginErrors == {"NonceFailed", "SignFailed", "VerifyFailed"}
OtherRefreshErrors == {"RefreshTransport", "RefreshDecode", "RefreshStatus500"}

\* an accessToken()/login() call that created the promise returns what the slot holds
OwnerReturnsSlotResult ==
  \A c \in 1..Len(calls) :
    (calls[c].pc = "own" /\ calls' = without(calls, c)) =>
       /\ calls[c].kind = "accessToken" => returned'.res = inFlight.res /\ inFlight' = NoPromise
       /\ calls[c].kind = "login" => returned'.res = loginPromise.res /\ loginPromise' = NoPromise

\* a call that returned the shared promise returns the result it was handed
JoinerReturnsSharedResult ==
  \A c \in 1..Len(calls) :
    (calls[c].pc = "join" /\ calls' = without(calls, c)) => returned'.res = calls[c].res

\* every accessToken() call attached to the operation in the slot sees that
\* operation's state: unsettled while it runs, its result once it has settled
AttachedCallsShareResult ==
  \A c \in 1..Len(calls) :
    (calls[c].kind = "accessToken" /\ calls[c].pc = "join" /\ calls[c].pid = inFlight.id)
      => calls[c].res = inFlight.res

\* C1: while a refreshOrLogin operation is in flight and no fresh token is
\* cached, a further accessToken() call starts nothing: it sends no nonce,
\* verify or refresh request, starts no operation and leaves both slots alone;
\* it attaches to the operation in flight, and every attached call returns
\* the result of that one operation.  A login never sends more than one verify.
C1_SingleFlight ==
  /\ [][(AccessTokenStep /\ ~Fresh /\ inFlight.st = "pending") =>
          /\ NetworkQuiet
          /\ UNCHANGED <<inFlight, loginPromise, rol, plPc, rolSeq, tokens>>
          /\ calls' = Append(calls, Call("accessToken", "join", inFlight.id, NoRes, 0))]_vars
  /\ [][OwnerReturnsSlotResult /\ JoinerReturnsSharedResult]_vars
  /\ [](AttachedCallsShareResult /\ verifyCalls <= nonceCalls)

\* two accessToken() calls on a fresh session share the first operation, which
\* has logged in with one nonce and one verify request
C1_Witness ==
  /\ \E c, d \in 1..Len(calls) :
        /\ c # d
        /\ calls[c].kind = "accessToken" /\ calls[c].pc = "own" /\ calls[c].pid = 1
        /\ calls[d].kind = "accessToken" /\ calls[d].pc = "join" /\ calls[d].pid = 1
        /\ calls[d].res = Ok(1)
  /\ inFlight.id = 1 /\ inFlight.res = Ok(1)
  /\ nonceCalls = 1 /\ verifyCalls = 1 /\ refreshCalls = 0

\* C2: no refresh and login are in flight at the same time on one session
C2_NoConcurrentTokenOperations ==
  ~(rol.pc = "awaitRefresh" /\ plPc # "idle")

\* C3: when the refresh is rejected with 401 the operation falls back to one
\* login: it starts performLogin with one nonce request (or attaches to the
\* login already in flight), leaves the accessToken() promise pending, and the
\* 401 is never the result of the promise nor returned to a caller; a login
\* that succeeds caches the token set it was issued, and the operation then
\* resolves with that login's access token.
C3_RefreshThenLoginFallback ==
  /\ [][(rol.pc = "awaitRefresh" /\ \E x \in ExpiresInSet : refreshResponse("Refresh401", x)) =>
          /\ rol'.pc = "awaitLogin"
          /\ inFlight' = inFlight /\ inFlight.st = "pending"
          /\ refreshCalls' = refreshCalls /\ verifyCalls' = verifyCalls
          /\ IF loginPromise.st = "none"
             THEN nonceCalls' = nonceCalls + 1 /\ plPc' = "awaitNonce" /\ rol'.owner
             ELSE nonceCalls' = nonceCalls /\ rol'.pid = loginPromise.id]_vars
  /\ [][(plPc = "awaitVerify" /\ loginPromise'.st = "resolved") =>
          /\ tokens'.set
          /\ tokens'.accessToken = loginPromise'.res.tok
          /\ tokens'.accessToken > tokens.accessToken
          /\ tokens'.accessToken = issued']_vars
  /\ [][(rol.pc = "awaitLogin" /\ rol.owner /\ rol'.pc = "loginSettled") =>
          rol'.res = loginPromise.res]_vars
  /\ [][(rol.pc = "loginSettled" /\ rol'.pc = "idle") => inFlight'.res = rol.res]_vars
  /\ [](inFlight.res.err # "Refresh401" /\ returned.res.err # "Refresh401")

\* the login started by a 401 has succeeded and its token set is cached
C3_Witness ==
  /\ rol.pc = "loginSettled" /\ rol.via401 /\ rol.owner
  /\ rol.res.ok /\ tokens.set /\ tokens.accessToken = rol.res.tok
  /\ refreshCalls = 1 /\ nonceCalls = 2 /\ verifyCalls = 2

\* C5: with a cached token set that is not within the refresh margin of its
\* expiry, accessToken() returns the cached access token at once, sends no
\* request and changes nothing in the session
C5_FreshTokenServedFromCache ==
  [][(AccessTokenStep /\ Fresh) =>
       /\ returned' = Return("accessToken", "cached", 0, Ok(tokens.accessToken))
       /\ NetworkQuiet
       /\ UNCHANGED <<tokens, inFlight, loginPromise, refreshMarginSecs, rol, plPc,
                      refreshSent, rolSeq, issued>>
       /\ calls' = calls]_vars

\* a call has just been answered from the cache
C5_Witness ==
  /\ returned.kind = "accessToken" /\ returned.how = "cached"
  /\ tokens.set /\ returned.res = Ok(tokens.accessToken)
  /\ now + refreshMarginSecs < tokens.expiresAt /\ now > 0

\* C6: with a cached token set within the refresh margin of its expiry
\* (now + margin >= expiresAt) and no operation in flight, accessToken() sends
\* exactly one refresh request carrying the cached refresh token and no nonce
\* or verify request; when the refresh succeeds the cache holds the refreshed
\* token set, expiring expiresIn after the time of caching, and the operation
\* resolves with the new access token
C6_ExpiringTokenIsRefreshed ==
  /\ [][(AccessTokenStep /\ tokens.set /\ now + refreshMarginSecs >= tokens.expiresAt
          /\ inFlight.st = "none") =>
          /\ refreshCalls' = refreshCalls + 1
          /\ refreshSent' = tokens.refreshToken
          /\ UNCHANGED <<nonceCalls, verifyCalls, logoutCalls, tokens, loginPromise, plPc>>
          /\ rol'.pc = "awaitRefresh"
          /\ inFlight'.st = "pending"]_vars
  /\ [][\A x \in ExpiresInSet : refreshResponse("ok", x) =>
          /\ tokens'.set
          /\ tokens'.accessToken = issued' /\ tokens'.refreshToken = issued'
          /\ issued' = issued + 1
          /\ tokens'.expiresAt = now + x
          /\ inFlight'.st = "resolved" /\ inFlight'.res = Ok(tokens'.accessToken)
          /\ UNCHANGED <<nonceCalls, verifyCalls, refreshCalls>>]_vars
  /\ [][OwnerReturnsSlotResult]_vars

\* the first token set is exactly at the margin (now + margin = expiresAt) and
\* the refresh carrying its refresh token is in flight
C6_Witness ==
  /\ rol.pc = "awaitRefresh" /\ inFlight.st = "pending"
  /\ tokens.set /\ now + refreshMarginSecs = tokens.expiresAt
  /\ refreshSent = tokens.refreshToken /\ refreshSent = 1
  /\ refreshCalls = 1 /\ nonceCalls = 1 /\ verifyCalls = 1 /\ issued = 1

\* C7: when the refresh fails with anything but a 401 the operation rejects
\* with that error, no login is started (no nonce or verify request) and the
\* cached token set is left as it is
C7_OtherRefreshFailuresPropagate ==
  /\ [][\A e \in OtherRefreshErrors :
          (\E x \in ExpiresInSet : refreshResponse(e, x)) =>
             /\ inFlight'.st = "rejected" /\ inFlight'.res = Err(e)
             /\ rol'.pc = "idle"
             /\ UNCHANGED <<tokens, loginPromise, plPc, nonceCalls, verifyCalls, refreshCalls,
                            issued>>]_vars
  /\ [][OwnerReturnsSlotResult]_vars

\* accessToken() has just rejected with a refresh failure, the cache untouched
C7_Witness ==
  /\ returned.kind = "accessToken" /\ returned.how = "own"
  /\ returned.res.err \in OtherRefreshErrors
  /\ tokens.set /\ nonceCalls = 1 /\ verifyCalls = 1 /\ inFlight.st = "none"

\* the operation that owns the promise in a slot has not returned yet
SettledSlotHasOwner ==
  /\ inFlight.st \in {"resolved", "rejected"} =>
        \E c \in 1..Len(calls) : calls[c].kind = "accessToken" /\ calls[c].pc = "own"
                           /\ calls[c].pid = inFlight.id
  /\ loginPromise.st \in {"resolved", "rejected"} =>
        \/ \E c \in 1..Len(calls) : calls[c].kind = "login" /\ calls[c].pc = "own"
                              /\ calls[c].pid = loginPromise.id
        \/ rol.pc = "awaitLogin" /\ rol.owner /\ rol.pid = loginPromise.id

\* C8: a login that fails at the nonce, the signing or the verify step writes
\* nothing to the cache and hands its error to every call waiting on it; the
\* call that started an operation clears its slot when it returns, so a
\* settled promise never outlives its owner in a slot; and an accessToken()
\* call on a session with no tokens and empty slots starts a new login
C8_FailedLoginLeavesSessionClean ==
  /\ [][(plPc # "idle" /\ loginPromise'.st = "rejected") =>
          /\ tokens' = tokens
          /\ loginPromise'.res.err \in LoginErrors
          /\ \A c \in 1..Len(calls) :
               (calls[c].kind = "login" /\ calls[c].pc = "join"
                  /\ calls[c].pid = loginPromise.id) => calls'[c].res = loginPromise'.res
          /\ (rol.pc = "awaitLogin" /\ ~rol.owner /\ rol.pid = loginPromise.id)
                => rol'.res = loginPromise'.res]_vars
  /\ [][(rol.pc = "awaitLogin" /\ rol'.pc = "loginSettled") =>
          /\ rol.owner => rol'.res = loginPromise.res /\ loginPromise' = NoPromise
          /\ ~rol.owner => rol'.res = rol.res]_vars
  /\ [][(rol.pc = "loginSettled" /\ rol'.pc = "idle") => inFlight'.res = rol.res]_vars
  /\ [][OwnerReturnsSlotResult /\ JoinerReturnsSharedResult]_vars
  /\ [][(AccessTokenStep /\ ~tokens.set /\ inFlight.st = "none" /\ loginPromise.st = "none") =>
          /\ nonceCalls' = nonceCalls + 1
          /\ plPc' = "awaitNonce"
          /\ loginPromise'.st = "pending" /\ inFlight'.st = "pending"]_vars
  /\ [](SettledSlotHasOwner /\ AttachedCallsShareResult)

\* accessToken() on a fresh session has just rejected with the login's error:
\* nothing is cached and both slots are empty
C8_Witness ==
  /\ returned.kind = "accessToken" /\ returned.how = "own"
  /\ returned.res.err \in LoginErrors
  /\ ~tokens.set /\ issued = 0
  /\ inFlight = NoPromise /\ loginPromise = NoPromise

\* C9: once logout() has resolved and until the next call, no token set is cached
C9_LoggedOutMeansNoTokens ==
  loggedOut => ~tokens.set

\* a slot is held by the operation that wrote the cache
GuardHeldBy(w) ==
  \/ inFlight.st # "none" /\ inFlight.op = w
  \/ loginPromise.st # "none" /\ loginPromise.op = w

\* C10: every write to the token cache is made by an operation that holds a
\* single-flight slot
C10_CacheWrittenUnderGuard ==
  writer # "none" => GuardHeldBy(writer)

\* no call is waiting and both slots are empty
Quiescent == calls = <<>> /\ inFlight.st = "none" /\ loginPromise.st = "none"

\* C11: with every request answered, whenever a call is waiting or a slot
\* holds a promise, a state follows in which every call issued so far has
\* returned to the application and both slots are empty again
C11_EveryCallSettles ==
  (~Quiescent) ~> Quiescent

\* every call the application can issue has returned, the last one after
\* waiting on an operation that went through a refresh, and both slots are empty
C11_Witness ==
  /\ nCalls = MaxCalls /\ calls = <<>>
  /\ returned.how \in {"own", "join"}
  /\ refreshCalls >= 1 /\ nonceCalls >= 1
  /\ inFlight = NoPromise /\ loginPromise = NoPromise

\* ---------------------------------------------------------------------------
\* Properties of RecipientClient.remunerate
\* ---------------------------------------------------------------------------
\* the bytes the client's guarantee domain string stands for
expectedDomain(gd) ==
  IF startsWith0x(gd) THEN fromHex(SubSeq(gd, 3, Len(gd))) ELSE bufferFrom(gd)

\* C4: remunerate on a certificate that decodes and whose domain differs from
\* the expected domain fails with VerificationError without invoking
\* signatureToWordsAsync or gateway.remunerate; gateway.remunerate is invoked
\* only after the domain check passed and the decompression succeeded, in
\* that order
C4_DomainMismatchBlocksRemuneration ==
  LET dec == decodeGuaranteeClaims(rmCert.claims)
  IN /\ (rmPc # "idle" /\ dec.ok /\ dec.claims.domain.bytes # expectedDomain(guaranteeDomain)) =>
          /\ rmPc = "done"
          /\ rmResult = "VerificationError"
          /\ sigCalls = 0
          /\ gatewayCalls = 0
     /\ gatewayCalls > 0 =>
          /\ dec.ok /\ dec.claims.domain.bytes = expectedDomain(guaranteeDomain)
          /\ rmCert.signature = "validPoint"
          /\ rmLog = <<"verified", "signatureToWordsAsync", "sigWords", "gateway.remunerate">>
          /\ sigCalls = 1 /\ gatewayCalls = 1

\* a wrapped certificate whose domain differs from the expected one in its
\* last byte only has been rejected
C4_Witness ==
  LET dec == decodeGuaranteeClaims(rmCert.claims)
      exp == expectedDomain(guaranteeDomain)
  IN /\ rmPc = "done" /\ rmResult = "VerificationError" /\ rmLog = <<"verifyFailed">>
     /\ Len(rmCert.claims.words) = WRAPPED_CLAIMS_WORDS
     /\ dec.ok /\ Len(exp) = DomainLen
     /\ {i \in 1..DomainLen : dec.claims.domain.bytes[i] # exp[i]} = {DomainLen}
     /\ sigCalls = 0 /\ gatewayCalls = 0

\* ---------------------------------------------------------------------------
\* Properties of the guarantee codec
\* ---------------------------------------------------------------------------
\* claims of the declared type that the encoder accepts: version 1, a domain
\* of 32 bytes, unsigned integers, addresses in a spelling viem accepts
validClaims(c) ==
  /\ c.version = 1
  /\ c.domain.kind = "bytes" /\ Len(c.domain.bytes) = DomainLen
  /\ \A v \in {c.tabId, c.reqId, c.amount, c.totalAmount} : v >= 0
  /\ \A a \in {c.userAddress, c.recipientAddress, c.assetAddress} : isAddress(a)

hasLength(data, nWords) == hexDigits(data) = 2 * WordBytes * nWords

\* the data is a well-formed wrapper (416 bytes, offset and length words)
wellWrapped(data) ==
  /\ data.type # "other" /\ hasLength(data, WRAPPED_CLAIMS_WORDS)
  /\ data.words[2] = 2 * WordBytes /\ data.words[3] = CLAIMS_ENCODED_WORDS * WordBytes

C16_LengthSniffing ==
  (cdOp = "decode" /\ cdData.type # "other"
     /\ ~hasLength(cdData, CLAIMS_ENCODED_WORDS) /\ ~hasLength(cdData, WRAPPED_CLAIMS_WORDS)) =>
        /\ ~cdDec.ok /\ cdDec.err = "VerificationError"
        /\ cdDec.observed = hexDigits(cdData)
        /\ cdDec.read = 0

\* a bare hex string of 321 bytes, a full claims tuple followed by one byte,
\* has been rejected on its length
C16_Witness ==
  /\ cdOp = "decode" /\ cdData.type = "string" /\ ~cdData.prefixed
  /\ Len(cdData.words) = CLAIMS_ENCODED_WORDS /\ cdData.extra = 2
  /\ cdData.words[CLAIMS_ENCODED_WORDS] = 1
  /\ ~cdDec.ok /\ cdDec.err = "VerificationError"
  /\ cdDec.observed = 2 * (WordBytes * CLAIMS_ENCODED_WORDS + 1)

\* the number of bytes the domain argument stands for
domainByteLength(domain) ==
  IF domain.kind = "string" THEN Len(toBytes(domain.chars)) ELSE Len(domain.bytes)

\* C17: the encoder rejects, with VerificationError and without producing a
\* blob, claims whose domain is not 32 bytes long, given as bytes or as a string
C17_DomainEnforced ==
  (cdOp = "encode" /\ domainByteLength(cdClaims.domain) # DomainLen) =>
     (~cdEnc.ok /\ cdEnc.err = "VerificationError" /\ cdEnc.blob = NoData)

\* otherwise valid claims whose domain is a hex string of 33 bytes have been rejected
C17_Witness ==
  /\ cdOp = "encode" /\ cdClaims.version = 1
  /\ cdClaims.domain = StringArg(hexFromBytes(LongDomain))
  /\ cdClaims.amount >= 0 /\ isAddress(cdClaims.userAddress)
  /\ ~cdEnc.ok /\ cdEnc.err = "VerificationError"

\* ---------------------------------------------------------------------------
\* Properties of the BLS helpers
\* ---------------------------------------------------------------------------
BlsAsyncStep == \E sig \in BlsInputs : signatureToWordsAsync(sig)

\* C12: the asynchronous loader starts loading at most once.  A
\* signatureToWordsAsync call made while nothing is loaded and no loading
\* promise exists starts the one load and stores its promise; a call made
\* while the promise exists starts nothing and waits on that promise; every
\* call that went through the promise continues with the module the promise
\* resolved with.
C12_BackendLoadedOnce ==
  /\ [][(BlsAsyncStep /\ curvesCache = NoModule /\ curvesPromise.st = "none") =>
          /\ asyncLoads' = asyncLoads + 1
          /\ curvesPromise'.st # "none"
          /\ blsCalls'[Len(blsCalls')].pc = "own"]_vars
  /\ [][(BlsAsyncStep /\ curvesCache = NoModule /\ curvesPromise.st # "none") =>
          /\ asyncLoads' = asyncLoads
          /\ curvesPromise' = curvesPromise /\ loaderPc' = loaderPc
          /\ blsCalls'[Len(blsCalls')].pc = "join"]_vars
  /\ [][curvesPromise.st # "none" => curvesPromise'.st # "none"]_vars
  /\ [](/\ asyncLoads <= 1
        /\ \A i \in 1..Len(blsCalls) :
             (blsCalls[i].pc = "haveCurves" /\ blsCalls[i].via \in {"own", "join"})
                => blsCalls[i].mod = curvesPromise.mod
        /\ (blsReturned.via \in {"own", "join"} /\ blsReturned.res.ok)
                => blsReturned.res.mod = curvesPromise.mod)

\* three calls started before the backend was loaded: the promise created by
\* the first resolved after an import, and the three of them hold its module
C12_Witness ==
  /\ asyncLoads = 1 /\ Len(blsCalls) = 3
  /\ curvesPromise.st = "resolved" /\ curvesPromise.mod.by = "importJs"
  /\ blsCalls[1].via = "own"
  /\ \A i \in 1..3 : /\ blsCalls[i].pc = "haveCurves"
                       /\ blsCalls[i].mod = curvesPromise.mod
  /\ blsCalls[2].via = "join" /\ blsCalls[3].via = "join"

\* ---------------------------------------------------------------------------
\* Properties of PaymentSigner
\* ---------------------------------------------------------------------------
\* two strings spell the same 20-byte address, whatever the letter case
sameAddress(a, b) ==
  /\ a \in Addresses
  /\ b \in Addresses
  /\ spelling(a).lower = spelling(b).lower

\* C18: a signRequest call whose claims.userAddress is not the signer's
\* address (letter case aside) fails with SigningError under the eip712 and
\* the eip191 scheme alike, and invokes neither wallet.signTypedData nor
\* wallet.signMessage
C18_SignerAddressEnforced ==
  [][\A user \in UserAddressInputs, scheme \in {"eip712", "eip191"} :
       (signRequest(user, scheme) /\ ~sameAddress(user, sgSigner))
         => /\ sgPc' = "done"
            /\ sgResult' = SigningError
            /\ walletCalls' = walletCalls]_vars

\* a call under eip191 with the all-uppercase spelling of another address than
\* the signer's was rejected after an earlier call had signed
C18_Witness ==
  /\ sgPc = "done"
  /\ sgScheme = "eip191"
  /\ sgUser = "0x1234567890ABCDEF1234567890ABCDEF12345678"
  /\ sgSigner = "0x0000000000000000000000000000000000000001"
  /\ sgResult = SigningError
  /\ walletCalls = <<"signTypedData">>
  /\ nSign = 2

\* C19: remunerate on a certificate whose claims or whose signature is not a
\* string fails with a VerificationError that names that field, before
\* anything else is done with the certificate, and invokes neither
\* signatureToWordsAsync nor gateway.remunerate
C19_MalformedFieldsRejectedFirst ==
  (rmPc # "idle" /\ (rmCert.claims.type # "string" \/ rmCert.signature = "notAString")) =>
     /\ rmPc = "done"
     /\ rmResult = "VerificationError"
     /\ rmField = IF rmCert.claims.type # "string" THEN "claims" ELSE "signature"
     /\ rmLog = <<>>
     /\ sigCalls = 0
     /\ gatewayCalls = 0

\* ---------------------------------------------------------------------------
\* Properties of ContractGateway
\* ---------------------------------------------------------------------------
\* the calls whose submission has been handed to the client and has not settled
submissionsInFlight == {i \in 1..Len(gwCalls) : gwCalls[i].pc = "submitting"}

\* C20: of the write calls issued concurrently at most one has its submission
\* (contract.write, walletClient.sendTransaction) in flight at any time, and
\* every call whose arguments convert is submitted exactly once
C20_SubmissionsSerialised ==
  /\ Cardinality(submissionsInFlight) <= 1
  /\ \A i \in 1..Len(gwCalls) :
        /\ gwCalls[i].submits <= 1
        /\ (gwCalls[i].pc = "done" /\ gwCalls[i].result # "ValidationError")
              => gwCalls[i].submits = 1

submissionRejected == \E i \in 1..Len(gwCalls) : gwCalls[i].result = "rejected"
allSettled == \A i \in 1..Len(gwCalls) : gwCalls[i].pc = "done"

\* C21: when a submission rejects, its caller gets the rejection and no other
\* call is touched; every other call is still submitted once and, the chain
\* client's promises settling, ends with a result of its own
C21_FailureDoesNotBlock ==
  /\ [][\A i \in 1..MaxGatewayCalls :
          submissionSettles(i, FALSE) =>
            /\ gwCalls'[i].pc = "done" /\ gwCalls'[i].result = "rejected"
            /\ \A j \in (1..Len(gwCalls)) \ {i} : gwCalls'[j] = gwCalls[j]]_vars
  /\ [](\A i \in 1..Len(gwCalls) :
          gwCalls[i].result # "ValidationError" => gwCalls[i].submits = 1)
  /\ submissionRejected ~> allSettled

\* the first payTabErc20 call was rejected by contract.write and the second,
\* issued while the first was pending, got its receipt
C21_Witness ==
  /\ Len(gwCalls) = 2
  /\ gwCalls[1] = GatewayCall("contract.write", "done", 1, "rejected")
  /\ gwCalls[2] = GatewayCall("contract.write", "done", 1, "receipt")

\* ---------------------------------------------------------------------------
\* Properties of parseU256
\* ---------------------------------------------------------------------------
DecimalChars == {"0", "1"}
HexOnlyChars == {"0", "1", "a"}
allIn(t, S) == t # <<>> /\ \A i \in 1..Len(t) : t[i] \in S

\* a string that writes a non-negative integer in decimal or in 0x-hex
numericText(t) ==
  \/ allIn(t, DecimalChars)
  \/ Len(t) >= 3 /\ t[1] = "0" /\ t[2] = "x" /\ allIn(SubSeq(t, 3, Len(t)), HexOnlyChars)

\* C22: parseU256 returns a non-negative integer for a non-negative integer
\* number, a non-negative bigint and a decimal or 0x-hex string; on a negative
\* value, a non-finite number and a string that is no integer (the empty string
\* included) it throws ValidationError, no other error and no default value
C22_ParseU256Total ==
  pfOp = "parseU256" =>
    /\ (pfArg.type = "number" /\ pfArg.class = "integer" /\ pfArg.val >= 0)
          => pfRes = Parsed(pfArg.val)
    /\ (pfArg.type = "bigint" /\ pfArg.val >= 0) => pfRes = Parsed(pfArg.val)
    /\ (pfArg.type = "string" /\ numericText(pfArg.text))
          => pfRes.ok /\ pfRes.val >= 0
    /\ (pfArg.type \in {"number", "bigint"} /\ pfArg.val < 0)
          => pfRes = Thrown("ValidationError")
    /\ (pfArg.type = "number" /\ pfArg.class \in {"NaN", "Infinity"})
          => pfRes = Thrown("ValidationError")
    /\ (pfArg.type = "string" /\ ~numericText(trim(pfArg.text)))
          => pfRes = Thrown("ValidationError")

\* C23: a token set whose refresh token the server has rejected with 401 is
\* not served again: accessToken() never returns its access token from the
\* cache and never sends its refresh token in another refresh request,
\* whether the fallback login succeeded or failed
C23_RejectedTokensInvalidated ==
  [][/\ (refreshCalls' # refreshCalls) => refreshSent' \notin rejected
     /\ (returned'.kind = "accessToken" /\ returned'.how = "cached")
          => returned'.res.tok \notin rejected]_vars

\* C26: every token set a logout() removes from the cache is the one whose
\* refresh token that logout() sent to the server; a token set cached while
\* the logout request was in flight is not discarded unrevoked
C26_LogoutDiscardsOnlyRevoked ==
  [][\A c \in 1..MaxCalls :
       (logoutResponse(c, TRUE) /\ tokens.set) => tokens.refreshToken = calls[c].rt]_vars

\* C27: when the logout request fails, logout() rejects with that error and
\* the cached token set stays as it was; logout() on a session without a
\* refresh token sends no request and changes nothing of the session
C27_LogoutFailureKeepsTokens ==
  [][/\ \A c \in 1..MaxCalls :
          logoutResponse(c, FALSE) =>
            /\ returned' = Return("logout", "sent", 0, Err("LogoutFailed"))
            /\ tokens' = tokens
     /\ (logout /\ tokens.refreshToken = 0) =>
          /\ returned'.kind = "logout" /\ returned'.res.ok
          /\ logoutCalls' = logoutCalls
          /\ <<tokens, inFlight, loginPromise, rol, plPc, calls>>'
               = <<tokens, inFlight, loginPromise, rol, plPc, calls>>]_vars

\* a logout() whose request failed has rejected and the token set it tried to
\* revoke is still cached
C27_Witness ==
  /\ returned = Return("logout", "sent", 0, Err("LogoutFailed"))
  /\ tokens.set
  /\ logoutCalls = 1

\* C24: once a load has succeeded and curvesCache holds the module, over any
\* interleaving of signatureToWords and signatureToWordsAsync calls
\* curvesCache is not written again, no loader is started and no further
\* import is attempted
C24_LoadedOnceProcessWide ==
  [][curvesCache # NoModule =>
       /\ curvesCache' = curvesCache
       /\ asyncLoads' = asyncLoads
       /\ ~(loaderPc = "importJs" /\ loaderPc' = "importBare")]_vars

\* C25: after a signatureToWordsAsync call has failed because the backend
\* could not be loaded, the next signatureToWordsAsync call starts a load of
\* its own instead of taking the failure of the earlier one
C25_FailedLoadIsRetried ==
  [][(/\ curvesPromise.st = "rejected"
      /\ curvesCache = NoModule
      /\ blsCalls = <<>>
      /\ \E sig \in BlsInputs : signatureToWordsAsync(sig))
       => asyncLoads' = asyncLoads + 1]_vars

\* C28: validateGuaranteeTypedData accepts a payload only if its
\* SolGuaranteeRequestClaimsV1 list is the schema as a sequence, the same
\* seven name/type pairs in the same order; a list with a renamed, retyped,
\* missing, extra or reordered field is rejected with ValidationError
C28_SchemaMatchedInOrder ==
  pfOp = "validateGuaranteeTypedData" =>
    /\ pfRes = "accepted" => pfArg.isArray /\ pfArg.fields = SolGuaranteeRequestClaimsV1
    /\ pfArg.fields # SolGuaranteeRequestClaimsV1 => pfRes = "ValidationError"

\* ---------------------------------------------------------------------------
\* Properties of Client.new and RpcProxy
\* ---------------------------------------------------------------------------
\* the token written after `Bearer `, unless it carries a bearer prefix itself
withScheme(token) ==
  LET t == trim(token)
  IN IF Len(t) > 7 /\ SubSeq(t, 1, 7) \in {BearerPrefix, <<"b", "e", "a", "r", "e", "r", " ">>,
                                             <<"B", "E", "A", "R", "E", "R", " ">>}
     THEN t ELSE BearerPrefix \o t

RECURSIVE stripZeros(_)
stripZeros(t) == IF Len(t) > 1 /\ Head(t) = "0" THEN stripZeros(Tail(t)) ELSE t

\* hi * 2^256 + lo as a hex numeral: the digits of hi followed by those of lo
numeralOf(hi, lo) == stripZeros(toHex(hi) \o toHex(lo))

isWord(w) == Len(w) = WordBytes /\ \A i \in 1..Len(w) : w[i] \in 0..255

\* C30: for a field element v below 2^384 splitFp returns two 32-byte words
\* hi, lo with the top 16 bytes of hi zero and hi * 2^256 + lo = v; the words
\* of a signature are 8 such words, the pairs of x.c0, x.c1, y.c0, y.c1 in
\* this order, hi before lo
C30_SplitFpWords ==
  /\ pfOp = "splitFp" =>
       /\ Len(pfRes) = 2
       /\ isWord(pfRes[1]) /\ isWord(pfRes[2])
       /\ \A i \in 1..16 : pfRes[1][i] = 0
       /\ numeralOf(pfRes[1], pfRes[2]) = pfArg
  /\ pfOp = "signatureToWords" =>
       /\ Len(pfRes) = 8
       /\ \A k \in 1..8 : isWord(pfRes[k])
       /\ \A k \in {1, 3, 5, 7}, i \in 1..16 : pfRes[k][i] = 0
       /\ numeralOf(pfRes[1], pfRes[2]) = pfArg.x.c0
       /\ numeralOf(pfRes[3], pfRes[4]) = pfArg.x.c1
       /\ numeralOf(pfRes[5], pfRes[6]) = pfArg.y.c0
       /\ numeralOf(pfRes[7], pfRes[8]) = pfArg.y.c1

\* the words of a point with four different coordinates, x.c0 = 2^256 among
\* them, have been returned
C30_Witness ==
  /\ pfOp = "signatureToWords"
  /\ pfArg.x.c0 = <<"1">> \o [i \in 1..(2 * WordBytes) |-> "0"]
  /\ pfArg.x.c1 = <<"1">>
  /\ pfArg.y.c0 = [i \in 1..FP_HEX_CHARS |-> "f"]
  /\ pfArg.y.c1 = <<"0">>
  /\ pfRes[1][WordBytes] = 1
  /\ pfRes[5][WordBytes] = 255

\* C13: every failure of signatureToWords and of signatureToWordsAsync is a
\* VerificationError
C13_FailuresAreVerificationErrors ==
  (blsReturned.api # "none" /\ ~blsReturned.res.ok) => blsReturned.res.err = "VerificationError"

TypeOK ==
  /\ tokens.set \in BOOLEAN
  /\ now \in 0..MaxTime
  /\ plPc \in {"idle", "awaitNonce", "awaitSign", "awaitVerify"}
  /\ rol.pc \in {"idle", "awaitRefresh", "awaitLogin", "loginSettled"}
====
